---------------------------- MODULE Spec2Model ----------------------------
(***************************************************************************)
(* A model of the fount font library: the dynamic (scanned) and static     *)
(* collections, ingestion of font blobs (add_fonts), the per-source byte   *)
(* cache (load_source), fallback resolution, and the versioned snapshot    *)
(* that a FontContext keeps of the library's user collection.              *)
(***************************************************************************)
EXTENDS Integers, Sequences, FiniteSets, TLC

VARIABLES
    system,        \* Inner.system: the Static or the Scanned backing
    user,          \* Inner.user: the user CollectionData
    user_version,  \* Inner.user_version
    contexts,      \* each FontContext's `user` cell: <<>> or <<[version, data]>>
    disk,          \* the file system: path -> bytes on disk, or "missing"
    last,          \* the last call made and what it returned (observation only)
    threads,       \* each context's thread: where it is in the call it runs
    locks,         \* the reader/writer cells: who holds each
    arcs           \* the reference-counted snapshots and who points at which

\* The thread-level specifications (SpecLoad, SpecSync, SpecLocks) run a
\* call as several steps; the others run it as one and leave these alone.
\* SpecSync and SpecLocks keep the snapshots in `arcs`, not in `contexts`.
threadVars == <<threads, locks, arcs>>
vars == <<system, user, user_version, contexts, disk, last, threads, locks, arcs>>

-----------------------------------------------------------------------------
(* Bounds of the model.                                                    *)

\* Ids whose index reaches IndexLimit cannot be allocated (Overflow).
IndexLimit == 3

-----------------------------------------------------------------------------
(* Option values: None is the empty sequence, Some(x) the one-element one. *)

None == <<>>
Some(x) == <<x>>
IsSome(o) == o # <<>>
Unwrap(o) == o[1]

SeqToSet(s) == {s[i] : i \in 1..Len(s)}
Contains(s, x) == \E i \in 1..Len(s) : s[i] = x

-----------------------------------------------------------------------------
(* Names are sequences of characters, so that lowercasing, length and      *)
(* prefix tests are computed and not assumed.                              *)

ToLowerChar(ch) ==
    CASE ch = "F" -> "f"
      [] ch = "B" -> "b"
      [] ch = "N" -> "n"
      [] ch = "O" -> "o"
      [] ch = "S" -> "s"
      [] ch = "Z" -> "z"
      [] OTHER -> ch

\* LowercaseString::get and ScannedFont.lowercase_name, on ASCII names
ToLower(name) == [i \in 1..Len(name) |-> ToLowerChar(name[i])]

StartsWith(name, prefix) ==
    /\ Len(name) >= Len(prefix)
    /\ \A i \in 1..Len(prefix) : name[i] = prefix[i]

Noto == <<"N", "o", "t", "o">>

-----------------------------------------------------------------------------
(* Identifiers: an index and the one-bit origin tag.                       *)

\* FamilyId::alloc / FontId::alloc / SourceId::alloc
Alloc(index, is_user) ==
    IF index >= IndexLimit THEN None
    ELSE Some([index |-> index, user |-> is_user])

\* id.to_usize(): a position in a 0-based Vec; the sequences here are 1-based
ToUsize(id) == id.index
IsUserFont(id) == id.user

\* Vec::get
Get(vec, index) == IF index + 1 \in 1..Len(vec) THEN Some(vec[index + 1]) ELSE None


-----------------------------------------------------------------------------
(* The face scanner (FontScanner::scan_font).  A face of a blob carries    *)
(* its name table (family and typographic family, <<>> when absent), its   *)
(* attributes and its writing systems.                                     *)

\* swash's Cjk as usize
CjkAsUsize(cjk) ==
    CASE cjk = "None" -> 0
      [] cjk = "Traditional" -> 1
      [] cjk = "Simplified" -> 2
      [] cjk = "Japanese" -> 3
      [] cjk = "Korean" -> 4

CJK_FAMILY_COUNT == 5

\* Language::cjk() and Locale::cjk()
LangCjk(lang) ==
    CASE lang = "zh-Hant" -> "Traditional"
      [] lang = "zh-Hans" -> "Simplified"
      [] lang = "ja" -> "Japanese"
      [] lang = "ko" -> "Korean"
      [] OTHER -> "None"

\* script_tags::script_tag: the canonical four-byte tag of a script
ScriptTag(script) ==
    CASE script = "Arabic" -> <<97, 114, 97, 98>>
      [] script = "Greek" -> <<103, 114, 101, 107>>
      [] script = "Han" -> <<104, 97, 110, 105>>
      [] script = "Latin" -> <<108, 97, 116, 110>>

\* Ord on byte strings ([u8; 4] and str), as binary_search_by compares
RECURSIVE BytesLessFrom(_, _, _)
BytesLessFrom(a, b, i) ==
    IF i > Len(a) THEN i <= Len(b)
    ELSE IF i > Len(b) THEN FALSE
    ELSE IF a[i] # b[i] THEN a[i] < b[i]
    ELSE BytesLessFrom(a, b, i + 1)

BytesLess(a, b) == BytesLessFrom(a, b, 1)

\* The bytes of a name
CharCode(ch) ==
    CASE ch = "B" -> 66 [] ch = "F" -> 70 [] ch = "N" -> 78 [] ch = "O" -> 79
      [] ch = "S" -> 83 [] ch = "Z" -> 90 [] ch = "a" -> 97 [] ch = "b" -> 98
      [] ch = "f" -> 102 [] ch = "n" -> 110 [] ch = "o" -> 111 [] ch = "s" -> 115
      [] ch = "t" -> 116 [] ch = "z" -> 122

Bytes(name) == [i \in 1..Len(name) |-> CharCode(name[i])]

\* slice::binary_search_by over the sort keys of a table: [found, index]
RECURSIVE BinarySearchFrom(_, _, _, _)
BinarySearchFrom(keys, key, left, right) ==
    IF left >= right THEN [found |-> FALSE, index |-> left]
    ELSE LET mid == left + ((right - left) \div 2)
         IN  IF BytesLess(keys[mid + 1], key)
             THEN BinarySearchFrom(keys, key, mid + 1, right)
             ELSE IF BytesLess(key, keys[mid + 1])
             THEN BinarySearchFrom(keys, key, left, mid)
             ELSE [found |-> TRUE, index |-> mid]

BinarySearch(keys, key) == BinarySearchFrom(keys, key, 0, Len(keys))

\* strings.find_by_id(name_id, ..): "Family" or "TypographicFamily"
FindById(face, name_id) == IF name_id = "Family" THEN face.family ELSE face.typo

OtherNameId(name_id) ==
    IF name_id = "Family" THEN "TypographicFamily" ELSE "Family"

\* scan_font, lines 53-93: the resolved family name, <<>> when none resolves
ResolveName(face) ==
    LET name_id0 == IF face.is_var THEN "TypographicFamily" ELSE "Family"
        name0 == FindById(face, name_id0)
        retry == name0 = <<>> \/ StartsWith(name0, Noto)
        name_id == IF retry THEN OtherNameId(name_id0) ELSE name_id0
        alt == IF retry THEN FindById(face, name_id) ELSE <<>>
        swap == alt # <<>> /\ Len(alt) < Len(name0)
        name1 == IF swap THEN alt ELSE name0
    IN  IF name1 = <<>> THEN FindById(face, name_id) ELSE name1

\* scan_font, lines 99-106: one (script, cjk) pair per writing system
WritingSystemScript(ws) ==
    IF ws.script = "Han" /\ ws.lang # "none"
    THEN <<"Han", LangCjk(ws.lang)>>
    ELSE <<ws.script, "None">>

Scripts(face) ==
    {WritingSystemScript(ws) : ws \in {w \in face.ws : w.script # "none"}}

\* scan_font: None for a face without a name, else the ScannedFont
ScanFont(face, index) ==
    LET name == ResolveName(face)
    IN  IF name = <<>> THEN None
        ELSE Some([name |-> name,
                   lowercase_name |-> ToLower(name),
                   index |-> index,
                   attributes |-> <<face.stretch, face.weight, face.style>>,
                   scripts |-> Scripts(face)])

\* FontScanner::scan: the ScannedFonts handed to the callback, in order.
\* A blob that is no font data yields none; an unreadable face is skipped.
RECURSIVE ScanFrom(_, _)
ScanFrom(blob, i) ==
    IF i > Len(blob.faces) THEN <<>>
    ELSE LET rest == ScanFrom(blob, i + 1)
             f == blob.faces[i]
             scanned == IF f.readable THEN ScanFont(f, i - 1) ELSE None
         IN  IF IsSome(scanned) THEN <<Unwrap(scanned)>> \o rest ELSE rest

Scan(blob) == IF blob.parses THEN ScanFrom(blob, 1) ELSE <<>>

-----------------------------------------------------------------------------
(* CollectionData.                                                         *)

Vacant == [tag |-> "Vacant", bytes |-> "", alive |-> FALSE]
Present(bytes) == [tag |-> "Present", bytes |-> bytes, alive |-> TRUE]
Error == [tag |-> "Error", bytes |-> "", alive |-> FALSE]

\* SourceData::from_path and the SourceData built by register_fonts
SourceFromPath(path) == [kind |-> "Path", loc |-> path, status |-> Vacant]
SourceFromData(data) == [kind |-> "Data", loc |-> data, status |-> Vacant]

EmptyMap == [x \in {} |-> None]

\* CollectionData::new
NewCollection(is_user) ==
    [is_user |-> is_user,
     families |-> <<>>,
     fonts |-> <<>>,
     sources |-> <<>>,
     family_map |-> EmptyMap,
     default_families |-> <<>>,
     cjk_families |-> [i \in 1..CJK_FAMILY_COUNT |-> <<>>],
     script_fallbacks |-> EmptyMap]

\* HashMap::insert
MapInsert(map, key, value) ==
    [k \in DOMAIN map \cup {key} |-> IF k = key THEN value ELSE map[k]]

\* Vec::insert at a 0-based index
VecInsert(vec, index, x) ==
    SubSeq(vec, 1, index) \o <<x>> \o SubSeq(vec, index + 1, Len(vec))

\* The duplicate check looking at the family's first entry only
IsDuplicateOfFirst(family, attributes) ==
    /\ Len(family.fonts) > 0
    /\ family.fonts[1][2] = attributes[1]
    /\ family.fonts[1][3] = attributes[2]
    /\ family.fonts[1][4] = attributes[3]

\* add_fonts, lines 153-157: the (stretch, weight, style) triple is taken
IsDuplicate(family, attributes) ==
    \E i \in 1..Len(family.fonts) :
        /\ family.fonts[i][2] = attributes[1]
        /\ family.fonts[i][3] = attributes[2]
        /\ family.fonts[i][4] = attributes[3]

\* binary_search_by on the weight: the 0-based indices it may return.
\* Ok(index) is any entry of equal weight, Err(index) the one position
\* that keeps the order when no entry has the weight.
SearchPositions(fonts, weight) ==
    LET matches == {i \in 1..Len(fonts) : fonts[i][3] = weight}
    IN  IF matches # {} THEN {i - 1 : i \in matches}
        ELSE {Cardinality({i \in 1..Len(fonts) : fonts[i][3] < weight})}

\* The accepted face always put in front
SearchIndexFront(fonts, weight, tie) == 0

\* The index the search returns when several are allowed: `tie` picks one.
SearchIndex(fonts, weight, tie) ==
    LET ps == SearchPositions(fonts, weight)
    IN  IF tie = "low"
        THEN CHOOSE p \in ps : \A q \in ps : p <= q
        ELSE CHOOSE p \in ps : \A q \in ps : p >= q

\* The family appended whether or not the list holds it
PushAlways(list, family_id) == Append(list, family_id)

\* The list kept as it is once it has an entry
PushIfEmpty(list, family_id) ==
    IF list # <<>> THEN list ELSE Append(list, family_id)

\* add_fonts, lines 181-194: record the family under one (script, cjk)
PushUnique(list, family_id) ==
    IF Contains(list, family_id) THEN list ELSE Append(list, family_id)

AddScript(c, script, family_id) ==
    IF script[1] = "Han"
    THEN [c EXCEPT !.cjk_families[CjkAsUsize(script[2]) + 1] =
                       PushUnique(@, family_id)]
    ELSE LET tag == ScriptTag(script[1])
             entry == IF tag \in DOMAIN c.script_fallbacks
                      THEN c.script_fallbacks[tag] ELSE <<>>
         IN  [c EXCEPT !.script_fallbacks =
                           MapInsert(@, tag, PushUnique(entry, family_id))]

RECURSIVE AddScripts(_, _, _)
AddScripts(c, scripts, family_id) ==
    IF scripts = {} THEN c
    ELSE LET s == CHOOSE x \in scripts : TRUE
         IN  AddScripts(AddScript(c, s, family_id), scripts \ {s}, family_id)


\* The family looked up and entered under the name as the face spells it
LookupOrCreateFamilySpelled(c, font) ==
    IF font.name \in DOMAIN c.family_map
    THEN LET family_id == c.family_map[font.name]
         IN  IF family_id = None
             THEN [ok |-> FALSE, c |-> c, id |-> None]
             ELSE [ok |-> TRUE, c |-> c, id |-> family_id]
    ELSE LET family_id == Alloc(Len(c.families), c.is_user)
             family == [name |-> font.name, has_stretch |-> FALSE, fonts |-> <<>>]
         IN  IF family_id = None
             THEN [ok |-> FALSE, c |-> c, id |-> None]
             ELSE [ok |-> TRUE,
                   c |-> [c EXCEPT !.families = Append(@, family),
                                   !.family_map = MapInsert(@, font.name, family_id)],
                   id |-> family_id]

\* add_fonts, lines 130-150: the family of a scanned face.  The result is
\* [ok, c, id]: not ok when the name maps to no family or the id space is
\* exhausted; c is the collection with the family created when it was new.
LookupOrCreateFamily(c, font) ==
    IF font.lowercase_name \in DOMAIN c.family_map
    THEN LET family_id == c.family_map[font.lowercase_name]
         IN  IF family_id = None
             THEN [ok |-> FALSE, c |-> c, id |-> None]
             ELSE [ok |-> TRUE, c |-> c, id |-> family_id]
    ELSE LET family_id == Alloc(Len(c.families), c.is_user)
             family == [name |-> font.name, has_stretch |-> FALSE, fonts |-> <<>>]
         IN  IF family_id = None
             THEN [ok |-> FALSE, c |-> c, id |-> None]
             ELSE [ok |-> TRUE,
                   c |-> [c EXCEPT !.families = Append(@, family),
                                   !.family_map = MapInsert(@, font.lowercase_name,
                                                            family_id)],
                   id |-> family_id]

\* The source pushed with every accepted face
PushSourceAlways(c, added_source, source) ==
    [c EXCEPT !.sources = Append(@, source)]

\* add_fonts, lines 158-165: the source is pushed with the first accepted face
PushSource(c, added_source, source) ==
    IF added_source THEN c ELSE [c EXCEPT !.sources = Append(@, source)]

\* The flag set from the accepted face alone
InsertFontFlagOfLast(family, font_id, attributes, tie) ==
    [family EXCEPT
        !.has_stretch = attributes[1] # "NORMAL",
        !.fonts = VecInsert(@, SearchIndex(@, attributes[2], tie),
                            <<font_id, attributes[1], attributes[2], attributes[3]>>)]

\* add_fonts, lines 166-173: the family with the accepted face inserted
InsertFont(family, font_id, attributes, tie) ==
    [family EXCEPT
        !.has_stretch = IF attributes[1] # "NORMAL" THEN TRUE ELSE @,
        !.fonts = VecInsert(@, SearchIndex(@, attributes[2], tie),
                            <<font_id, attributes[1], attributes[2], attributes[3]>>)]

InsertIntoFamily(c, family_id, font_id, attributes, tie) ==
    [c EXCEPT !.families[ToUsize(family_id) + 1] =
                  InsertFont(@, font_id, attributes, tie)]

\* add_fonts, lines 174-179: the Registration, when the caller passed one
Register(reg, family_id, font_id) ==
    IF reg = None THEN None
    ELSE Some([families |-> PushUnique(Unwrap(reg).families, family_id),
               fonts |-> Append(Unwrap(reg).fonts, font_id)])

\* The FontData record that names the collection's first family
PushFontOfFirstFamily(c, family_id, source_id, font) ==
    [c EXCEPT !.fonts = Append(@, [family |-> [family_id EXCEPT !.index = 0],
                                   source |-> source_id,
                                   index |-> font.index,
                                   attributes |-> font.attributes])]

\* add_fonts, lines 196-202: the FontData record of the accepted face
PushFont(c, family_id, source_id, font) ==
    [c EXCEPT !.fonts = Append(@, [family |-> family_id,
                                   source |-> source_id,
                                   index |-> font.index,
                                   attributes |-> font.attributes])]

\* add_fonts, lines 158-203: the face is accepted.  st is the state the
\* closure captures, [c, reg, added_source, count]; c is st.c with the
\* face's family in it.
AcceptFace(st, c, font, source, source_id, tie, font_id, family_id) ==
    [c |-> PushFont(
               AddScripts(
                   InsertIntoFamily(PushSource(c, st.added_source, source),
                                    family_id, font_id, font.attributes, tie),
                   font.scripts, family_id),
               family_id, source_id, font),
     reg |-> Register(st.reg, family_id, font_id),
     added_source |-> TRUE,
     count |-> st.count + 1]

\* The face's source pushed before the duplicate check
AddFaceSourceFirst(st, fam, font, source, source_id, tie, font_id) ==
    IF ~fam.ok THEN st
    ELSE IF IsDuplicate(fam.c.families[ToUsize(Unwrap(fam.id)) + 1], font.attributes)
    THEN [st EXCEPT !.c = PushSource(fam.c, st.added_source, source),
                    !.added_source = TRUE]
    ELSE AcceptFace(st, fam.c, font, source, source_id, tie, font_id, Unwrap(fam.id))

\* add_fonts, lines 151-157: a face whose triple the family has is dropped
AddFaceToFamily(st, fam, font, source, source_id, tie, font_id) ==
    IF ~fam.ok THEN st
    ELSE IF IsDuplicate(fam.c.families[ToUsize(Unwrap(fam.id)) + 1], font.attributes)
    THEN [st EXCEPT !.c = fam.c]
    ELSE AcceptFace(st, fam.c, font, source, source_id, tie, font_id, Unwrap(fam.id))

\* add_fonts, lines 125-150: the font id, then the family
AddFaceWithId(st, font, source, source_id, tie, font_id) ==
    IF font_id = None THEN st
    ELSE AddFaceToFamily(st, LookupOrCreateFamily(st.c, font), font, source,
                         source_id, tie, Unwrap(font_id))

\* The callback allocating the font id from the number of families
AddFaceIdFromFamilies(st, font, source, source_id, tie) ==
    AddFaceWithId(st, font, source, source_id, tie,
                  Alloc(Len(st.c.families), st.c.is_user))

\* add_fonts, lines 124-204: the callback, run on one scanned face
AddFace(st, font, source, source_id, tie) ==
    AddFaceWithId(st, font, source, source_id, tie,
                  Alloc(Len(st.c.fonts), st.c.is_user))

RECURSIVE AddFaces(_, _, _, _, _, _)
AddFaces(st, scanned, i, source, source_id, tie) ==
    IF i > Len(scanned) THEN st
    ELSE AddFaces(AddFace(st, scanned[i], source, source_id, tie),
                  scanned, i + 1, source, source_id, tie)

\* add_fonts, line 205
Counted(st) == [c |-> st.c, reg |-> st.reg, count |-> Some(st.count)]

AddFontsFrom(c, blob, source, reg, tie, source_id) ==
    IF source_id = None THEN [c |-> c, reg |-> reg, count |-> None]
    ELSE Counted(AddFaces([c |-> c, reg |-> reg, added_source |-> FALSE, count |-> 0],
                          Scan(blob), 1, source, Unwrap(source_id), tie))

\* CollectionData::add_fonts: [c, reg, count] with count None when the
\* source id cannot be allocated, else Some(number of accepted faces).
AddFonts(c, blob, source, reg, tie) ==
    AddFontsFrom(c, blob, source, reg, tie, Alloc(Len(c.sources), c.is_user))

-----------------------------------------------------------------------------
(* The world outside the library: font blobs, the files on disk and the    *)
(* platform's font-name resolver.                                          *)

NormalFace(family, weight, ws) ==
    [readable |-> TRUE, family |-> family, typo |-> <<>>, is_var |-> FALSE,
     stretch |-> "NORMAL", weight |-> weight, style |-> "Normal", ws |-> ws]

Latin == [script |-> "Latin", lang |-> "none"]
HanSimplified == [script |-> "Han", lang |-> "zh-Hans"]
HanJapanese == [script |-> "Han", lang |-> "ja"]
NoScript == [script |-> "none", lang |-> "none"]

NameFo == <<"F", "o">>
NameBa == <<"B", "a">>

\* The faces of a blob of bytes; bytes that are no font data do not parse.
BlobOf(bytes) ==
    CASE bytes = "fo" ->
           [parses |-> TRUE, faces |-> <<NormalFace(NameFo, 400, {Latin})>>]
      [] bytes = "fo2" ->
           [parses |-> TRUE,
            faces |-> <<[readable |-> TRUE, family |-> NameFo, typo |-> <<>>,
                         is_var |-> FALSE, stretch |-> "CONDENSED", weight |-> 700,
                         style |-> "Italic", ws |-> {Latin, HanSimplified}],
                        NormalFace(<<"f", "o">>, 400, {Latin, NoScript})>>]
      [] bytes = "noto" ->
           [parses |-> TRUE,
            faces |-> <<NormalFace(<<>>, 400, {Latin}),
                        [readable |-> FALSE],
                        [readable |-> TRUE, family |-> <<"N", "o", "t", "o", "S">>,
                         typo |-> Noto, is_var |-> FALSE, stretch |-> "NORMAL",
                         weight |-> 400, style |-> "Normal",
                         ws |-> {HanJapanese, [script |-> "Han", lang |-> "none"]}]>>]
      [] bytes = "fo3" ->
           [parses |-> TRUE,
            faces |-> <<[readable |-> TRUE, family |-> NameFo, typo |-> <<>>,
                         is_var |-> FALSE, stretch |-> "NORMAL", weight |-> 400,
                         style |-> "Italic", ws |-> {Latin}],
                        [readable |-> TRUE, family |-> NameFo, typo |-> <<>>,
                         is_var |-> FALSE, stretch |-> "NORMAL", weight |-> 400,
                         style |-> "Oblique", ws |-> {Latin}]>>]
      [] bytes = "bf" ->
           [parses |-> TRUE,
            faces |-> <<NormalFace(NameBa, 400, {Latin}),
                        NormalFace(NameFo, 400, {Latin})>>]
      [] bytes \in {"ba", "ba'"} ->
           [parses |-> TRUE, faces |-> <<NormalFace(NameBa, 400, {Latin})>>]
      [] OTHER -> [parses |-> FALSE, faces |-> <<>>]

\* The byte vectors handed to register_fonts
UserBlobs == {"fo", "fo2", "noto", "junk"}

Paths == {"p1"}
FileContents == {"ba", "ba'", "missing"}

\* SystemSource::select_family_by_name: the files of an installed family
\* (Handle::Path), None when the platform knows no such family.
SelectFamilyByName(name) ==
    IF ToLower(name) = ToLower(NameBa) THEN Some(<<"p1">>) ELSE None

\* scan_path on a file: [c, reads]; a path that cannot be read adds nothing
ScanPath(path, c, files, tie) ==
    IF files[path] = "missing" THEN c
    ELSE AddFonts(c, BlobOf(files[path]), SourceFromPath(path), None, tie).c

RECURSIVE ScanPaths(_, _, _, _, _)
ScanPaths(paths, i, c, files, tie) ==
    IF i > Len(paths) THEN c
    ELSE ScanPaths(paths, i + 1, ScanPath(paths[i], c, files, tie), files, tie)

\* family_id, lines 113-129: an unknown name is looked for on the platform
ResolveUnknown(c, name, files, tie) ==
    IF ToLower(name) \in DOMAIN c.family_map THEN c
    ELSE IF IsSome(SelectFamilyByName(name))
    THEN ScanPaths(Unwrap(SelectFamilyByName(name)), 1, c, files, tie)
    ELSE [c EXCEPT !.family_map = MapInsert(@, name, None)]

\* family_id, lines 131-135
MappedId(c, lowercase_name) ==
    [c |-> c,
     id |-> IF lowercase_name \in DOMAIN c.family_map
            THEN c.family_map[lowercase_name] ELSE None]

\* The lookup under the name as the caller spelled it
FamilyIdCaseSensitive(c, name, files, tie) ==
    MappedId(ResolveUnknown(c, name, files, tie), name)

\* CollectionData::family_id: [c, id]
FamilyId(c, name, files, tie) ==
    MappedId(ResolveUnknown(c, name, files, tie), ToLower(name))

\* CollectionData::family
Family(c, id) ==
    LET family == Get(c.families, ToUsize(id))
    IN  IF family = None THEN None
        ELSE Some([id |-> id, has_stretch |-> Unwrap(family).has_stretch,
                   name |-> Unwrap(family).name, fonts |-> Unwrap(family).fonts])

\* CollectionData::font
Font(c, id) ==
    LET font == Get(c.fonts, ToUsize(id))
    IN  IF font = None THEN None
        ELSE Some([id |-> id, family |-> Unwrap(font).family,
                   source |-> Unwrap(font).source, index |-> Unwrap(font).index,
                   attributes |-> Unwrap(font).attributes])

\* CollectionData::source
Source(c, id) ==
    LET source == Get(c.sources, ToUsize(id))
    IN  IF source = None THEN None
        ELSE Some([id |-> id, kind |-> Unwrap(source).kind, loc |-> Unwrap(source).loc])

\* CollectionData::find_family: [c, ids]
PushFound(id, rest) ==
    [c |-> rest.c, ids |-> IF IsSome(id) THEN <<Unwrap(id)>> \o rest.ids ELSE rest.ids]

RECURSIVE FindFamily(_, _, _, _, _)
FindNext(r, names, i, files, tie) ==
    PushFound(r.id, FindFamily(r.c, names, i + 1, files, tie))

FindFamily(c, names, i, files, tie) ==
    IF i > Len(names) THEN [c |-> c, ids |-> <<>>]
    ELSE FindNext(FamilyId(c, names[i], files, tie), names, i, files, tie)

\* The names setup_default looks for (they depend on the OS)
DefaultFamilyNames == <<<<"z", "z">>, <<"b", "a">>>>

\* CollectionData::setup_default
SetDefault(r) == [r.c EXCEPT !.default_families = r.ids]

SetupDefaultOf(c, files, tie) ==
    SetDefault(FindFamily(c, DefaultFamilyNames, 1, files, tie))

\* CollectionData::clone_into
CloneInto(self, other) ==
    [other EXCEPT !.families = self.families,
                  !.fonts = self.fonts,
                  !.sources = self.sources,
                  !.family_map = self.family_map]


\* CollectionData::fallback_families: [c, out]
FallbackFamilies(c, script, locale) ==
    LET cjk == IF locale = None THEN "None" ELSE LangCjk(Unwrap(locale))
        tag == ScriptTag(script)
        c1 == IF tag \in DOMAIN c.script_fallbacks THEN c
              ELSE [c EXCEPT !.script_fallbacks = MapInsert(@, tag, <<>>)]
    IN  IF script = "Han"
        THEN [c |-> c, out |-> c.cjk_families[CjkAsUsize(cjk) + 1]]
        ELSE [c |-> c1,
              out |-> IF tag \in DOMAIN c1.script_fallbacks
                      THEN c1.script_fallbacks[tag]
                      ELSE c1.default_families]

-----------------------------------------------------------------------------
(* The source byte cache.                                                  *)

\* The weak reference that outlives the bytes
UpgradeDead(status) == Some(status.bytes)

\* WeakFontData::upgrade
Upgrade(status) == IF status.alive THEN Some(status.bytes) ELSE None

\* The status check that never serves the cached bytes
CheckStatusNoCache(status) ==
    IF status.tag = "Error" THEN [done |-> TRUE, out |-> None]
    ELSE [done |-> FALSE, out |-> None]

\* load_source, lines 406-414 and again 416-424: [done, out]
CheckStatus(status) ==
    IF status.tag = "Present" /\ IsSome(Upgrade(status))
    THEN [done |-> TRUE, out |-> Upgrade(status)]
    ELSE IF status.tag = "Error" THEN [done |-> TRUE, out |-> None]
    ELSE [done |-> FALSE, out |-> None]

\* The read that forgets a failure
ReadFileForgetful(path, files) ==
    IF files[path] # "missing"
    THEN [status |-> Present(files[path]), out |-> Some(files[path]), reads |-> 1]
    ELSE [status |-> Vacant, out |-> None, reads |-> 1]

\* load_source, lines 425-430: the read and the status it stores
ReadFile(path, files) ==
    IF files[path] # "missing"
    THEN [status |-> Present(files[path]), out |-> Some(files[path]), reads |-> 1]
    ELSE [status |-> Error, out |-> None, reads |-> 1]

\* load_source: [status, out, reads]
LoadSource(path, status, files) ==
    LET shared == CheckStatus(status)
        exclusive == CheckStatus(status)
    IN  IF shared.done THEN [status |-> status, out |-> shared.out, reads |-> 0]
        ELSE IF exclusive.done
        THEN [status |-> status, out |-> exclusive.out, reads |-> 0]
        ELSE ReadFile(path, files)

\* CollectionData::load: [c, out, reads]
Load(c, id, files) ==
    LET slot == ToUsize(id) + 1
        source_data == Get(c.sources, ToUsize(id))
        r == LoadSource(c.sources[slot].loc, c.sources[slot].status, files)
    IN  IF source_data = None THEN [c |-> c, out |-> None, reads |-> 0]
        ELSE IF c.sources[slot].kind = "Data"
        THEN [c |-> c, out |-> Some(c.sources[slot].loc), reads |-> 0]
        ELSE [c |-> [c EXCEPT !.sources[slot].status = r.status],
              out |-> r.out, reads |-> r.reads]

-----------------------------------------------------------------------------
(* The static (precompiled) collection.                                    *)

SystemId(index) == [index |-> index, user |-> FALSE]

\* A StaticCollectionData table as the build emits it: families sorted by
\* lowercase name, script fallbacks sorted by tag.
StaticData ==
    [families |->
        <<[name |-> NameBa, lowercase_name |-> ToLower(NameBa), has_stretch |-> FALSE,
           fonts |-> <<<<SystemId(0), "NORMAL", 400, "Normal">>>>],
          [name |-> NameFo, lowercase_name |-> ToLower(NameFo), has_stretch |-> FALSE,
           fonts |-> <<<<SystemId(1), "NORMAL", 400, "Normal">>>>]>>,
     fonts |->
        <<[family |-> SystemId(0), attributes |-> <<"NORMAL", 400, "Normal">>,
           source |-> SystemId(0), index |-> 0],
          [family |-> SystemId(1), attributes |-> <<"NORMAL", 400, "Normal">>,
           source |-> SystemId(0), index |-> 1]>>,
     sources |-> <<[file_name |-> "p1"]>>,
     default_families |-> <<SystemId(0)>>,
     script_fallbacks |->
        <<[script |-> ScriptTag("Han"), families |-> <<SystemId(0)>>],
          [script |-> ScriptTag("Latin"), families |-> <<SystemId(1), SystemId(0)>>]>>,
     cjk_families |->
        <<<<SystemId(1)>>, <<>>, <<SystemId(1), SystemId(0)>>, <<>>, <<>>>>]

\* StaticCollection::new: one Vacant status cell per source
NewStaticCollection(data) ==
    [data |-> data, sources |-> [i \in 1..Len(data.sources) |-> Vacant]]

\* StaticCollection::family_id
StaticFamilyId(static, name) ==
    LET keys == [i \in 1..Len(static.data.families) |->
                    Bytes(static.data.families[i].lowercase_name)]
        r == BinarySearch(keys, Bytes(ToLower(name)))
    IN  IF r.found THEN Some(SystemId(r.index)) ELSE None

\* The static lookup that consults the script-tag table before Han
StaticFallbackByTagFirst(static, script, locale) ==
    LET cjk == IF locale = None THEN 0 ELSE CjkAsUsize(LangCjk(Unwrap(locale)))
        keys == [i \in 1..Len(static.data.script_fallbacks) |->
                    static.data.script_fallbacks[i].script]
        r == BinarySearch(keys, ScriptTag(script))
    IN  IF r.found THEN static.data.script_fallbacks[r.index + 1].families
        ELSE IF script = "Han" THEN static.data.cjk_families[cjk + 1]
        ELSE static.data.default_families

\* StaticCollection::fallback_families
StaticFallbackFamilies(static, script, locale) ==
    LET cjk == IF locale = None THEN 0 ELSE CjkAsUsize(LangCjk(Unwrap(locale)))
        keys == [i \in 1..Len(static.data.script_fallbacks) |->
                    static.data.script_fallbacks[i].script]
        r == BinarySearch(keys, ScriptTag(script))
    IN  IF script = "Han" THEN static.data.cjk_families[cjk + 1]
        ELSE IF r.found THEN static.data.script_fallbacks[r.index + 1].families
        ELSE static.data.default_families

\* StaticCollection::load: [static, out, reads]
StaticLoad(static, id, files) ==
    LET slot == ToUsize(id) + 1
        r == LoadSource(static.data.sources[slot].file_name,
                        static.sources[slot], files)
    IN  IF Get(static.data.sources, ToUsize(id)) = None
        THEN [static |-> static, out |-> None, reads |-> 0]
        ELSE [static |-> [static EXCEPT !.sources[slot] = r.status],
              out |-> r.out, reads |-> r.reads]


-----------------------------------------------------------------------------
(* SystemCollectionData: the tagged choice between the two backings.       *)

StaticSystem(static) == [kind |-> "Static", static |-> static]
ScannedSystem(collection) == [kind |-> "Scanned", collection |-> collection]

\* SystemCollectionData::family
SystemFamily(sys, id) ==
    LET family == Get(sys.static.data.families, ToUsize(id))
    IN  IF sys.kind = "Scanned" THEN Family(sys.collection, id)
        ELSE IF family = None THEN None
        ELSE Some([id |-> id, has_stretch |-> Unwrap(family).has_stretch,
                   name |-> Unwrap(family).name, fonts |-> Unwrap(family).fonts])

\* SystemCollectionData::font
SystemFont(sys, id) ==
    LET font == Get(sys.static.data.fonts, ToUsize(id))
    IN  IF sys.kind = "Scanned" THEN Font(sys.collection, id)
        ELSE IF font = None THEN None
        ELSE Some([id |-> id, family |-> Unwrap(font).family,
                   source |-> Unwrap(font).source, index |-> Unwrap(font).index,
                   attributes |-> Unwrap(font).attributes])

\* SystemCollectionData::source
SystemSource(sys, id) ==
    LET source == Get(sys.static.data.sources, ToUsize(id))
    IN  IF sys.kind = "Scanned" THEN Source(sys.collection, id)
        ELSE IF source = None THEN None
        ELSE Some([id |-> id, kind |-> "FileName", loc |-> Unwrap(source).file_name])

\* SystemCollectionData::load: [sys, out, reads]
SystemLoad(sys, id, files) ==
    IF sys.kind = "Scanned"
    THEN LET r == Load(sys.collection, id, files)
         IN  [sys |-> ScannedSystem(r.c), out |-> r.out, reads |-> r.reads]
    ELSE LET r == StaticLoad(sys.static, id, files)
         IN  [sys |-> StaticSystem(r.static), out |-> r.out, reads |-> r.reads]

\* SystemCollectionData::default_families
SystemDefaultFamilies(sys) ==
    IF sys.kind = "Scanned" THEN sys.collection.default_families
    ELSE sys.static.data.default_families

\* SystemCollectionData::fallback_families: [sys, out]
SystemFallbackFamilies(sys, script, locale) ==
    IF sys.kind = "Scanned"
    THEN LET r == FallbackFamilies(sys.collection, script, locale)
         IN  [sys |-> ScannedSystem(r.c), out |-> r.out]
    ELSE [sys |-> sys, out |-> StaticFallbackFamilies(sys.static, script, locale)]

\* SystemCollectionData::family_id: [sys, id]
ScannedId(r) == [sys |-> ScannedSystem(r.c), id |-> r.id]

SystemFamilyId(sys, name, files, tie) ==
    IF sys.kind = "Scanned"
    THEN ScannedId(FamilyId(sys.collection, name, files, tie))
    ELSE [sys |-> sys, id |-> StaticFamilyId(sys.static, name)]

\* SystemCollectionData::family_by_name: [sys, out]
FamilyOfId(r) ==
    [sys |-> r.sys,
     out |-> IF r.id = None THEN None ELSE SystemFamily(r.sys, Unwrap(r.id))]

SystemFamilyByName(sys, name, files, tie) ==
    FamilyOfId(SystemFamilyId(sys, name, files, tie))

\* SystemCollectionData::add_fonts: [sys, reg, count]
ScannedAdded(r) == [sys |-> ScannedSystem(r.c), reg |-> r.reg, count |-> r.count]

\* The dispatch that ingests into a collection whatever the backing
SystemAddFontsAnyBacking(sys, blob, source, reg, tie) ==
    IF sys.kind = "Static"
    THEN [sys |-> sys, reg |-> AddFonts(NewCollection(FALSE), blob, source, reg, tie).reg,
          count |-> AddFonts(NewCollection(FALSE), blob, source, reg, tie).count]
    ELSE ScannedAdded(AddFonts(sys.collection, blob, source, reg, tie))

SystemAddFonts(sys, blob, source, reg, tie) ==
    IF sys.kind = "Static" THEN [sys |-> sys, reg |-> reg, count |-> None]
    ELSE ScannedAdded(AddFonts(sys.collection, blob, source, reg, tie))

-----------------------------------------------------------------------------
(* Library and FontContext.                                                *)

Ctx == {"c1", "c2"}
Ties == {"low", "high"}

\* The ids, names, scripts and locales the callers ask about
QueryIds == {[index |-> i, user |-> u] : i \in 0..(IndexLimit - 1), u \in BOOLEAN}
QueryNames == {NameFo, <<"f", "o">>, NameBa}
QueryScripts == {"Han", "Latin", "Arabic"}
QueryLocales == {None, Some("zh-Hans"), Some("ja")}

Call(op, arg, out, reads) == [op |-> op, arg |-> arg, out |-> out, reads |-> reads]

\* Whoever can hold a snapshot: the contexts, and a Families iterator
Holders == Ctx \cup {"it"}

\* A reader/writer cell nobody holds
Unlocked == [readers |-> {}, writer |-> {}]

\* A thread that runs no call: the calls it has made, the call it is in
\* and its argument, the locals arc_user (context.rs:154) and data
\* (data.rs:425), the bytes a load returned that it still holds, and what
\* the version counter was when it last copied the user collection
\* (observation only)
Idle == [at |-> "idle", calls |-> 0, op |-> "none", arg |-> None,
         arc_user |-> 0, data |-> None, out |-> None, copied |-> None]

\* Library::new, with the system collection the builder hands over
Init ==
    /\ system \in {StaticSystem(NewStaticCollection(StaticData)),
                   ScannedSystem(NewCollection(FALSE))}
    /\ user = NewCollection(TRUE)
    /\ user_version = 0
    /\ contexts = [c \in Ctx |-> None]
    /\ disk = [p \in Paths |-> "ba"]
    /\ last = Call("new", <<>>, None, 0)
    /\ threads = [c \in Ctx |-> Idle]
    /\ locks = [user |-> Unlocked, system |-> Unlocked, status |-> Unlocked]
    /\ arcs = [cells |-> <<>>, held |-> [h \in Holders |-> 0]]

\* FontContext::sync_user: the context's snapshot after the call
SyncUser(snapshot) ==
    IF snapshot.version # user_version
    THEN [version |-> user_version, data |-> CloneInto(user, snapshot.data)]
    ELSE snapshot

Snapshot(c) == Unwrap(contexts[c])
Created(c) == IsSome(contexts[c])

\* CollectionData::setup_default, run by the builder before the library
\* has handed out a context
SetupDefault ==
    /\ system.kind = "Scanned"
    /\ \A c \in Ctx : ~Created(c)
    /\ last.op = "new"
    /\ \E tie \in Ties :
           system' = ScannedSystem(SetupDefaultOf(system.collection, disk, tie))
    /\ UNCHANGED <<user, user_version, contexts, disk, last>>
    /\ UNCHANGED threadVars

\* FontContext::new, lines 22-24: the snapshot a new context starts with
NewSnapshot == [version |-> user_version, data |-> user]

\* FontContext::new
NewContext(c) ==
    /\ ~Created(c)
    /\ contexts' = [contexts EXCEPT ![c] = Some(NewSnapshot)]
    /\ UNCHANGED <<system, user, user_version, disk, last>>
    /\ UNCHANGED threadVars

\* The family query that answers from the user snapshot only
FamilyOutOfSnapshot(snapshot, id) ==
    Family(SyncUser(snapshot).data, id)

\* What FontContext::family returns to a context holding `snapshot`
FamilyOut(snapshot, id) ==
    IF IsUserFont(id) THEN Family(SyncUser(snapshot).data, id)
    ELSE SystemFamily(system, id)

\* What FontContext::font returns
FontOut(snapshot, id) ==
    IF IsUserFont(id) THEN Font(SyncUser(snapshot).data, id)
    ELSE SystemFont(system, id)

\* What FontContext::source returns
SourceOut(snapshot, id) ==
    IF IsUserFont(id) THEN Source(SyncUser(snapshot).data, id)
    ELSE SystemSource(system, id)

\* What FontContext::family_by_name returns
FamilyByNameOut(name, tie) == SystemFamilyByName(system, name, disk, tie).out

\* FontContext::family, font and source: the user snapshot is brought up
\* to date when the id is a user id, and nothing else changes
PointQuery(c, id) ==
    /\ Created(c)
    /\ contexts' = [contexts EXCEPT ![c] =
                       IF IsUserFont(id) THEN Some(SyncUser(Snapshot(c))) ELSE @]
    /\ UNCHANGED <<system, user, user_version, disk, last>>
    /\ UNCHANGED threadVars

\* FontContext::family_by_name
FamilyByName(c, name) ==
    /\ Created(c)
    /\ \E r \in {SystemFamilyByName(system, name, disk, tie) : tie \in Ties} :
           /\ system' = r.sys
           /\ last' = Call("family_by_name", name, r.out, 0)
    /\ contexts' = [contexts EXCEPT ![c] = Some(SyncUser(Snapshot(c)))]
    /\ UNCHANGED <<user, user_version, disk>>
    /\ UNCHANGED threadVars

\* FontContext::load
LoadFont(c, id) ==
    /\ Created(c)
    /\ IF IsUserFont(id)
       THEN LET synced == SyncUser(Snapshot(c))
                r == Load(synced.data, id, disk)
            IN  /\ contexts' = [contexts EXCEPT ![c] =
                                   Some([synced EXCEPT !.data = r.c])]
                /\ last' = Call("load", id, r.out, r.reads)
                /\ UNCHANGED system
       ELSE LET r == SystemLoad(system, id, disk)
            IN  /\ system' = r.sys
                /\ last' = Call("load", id, r.out, r.reads)
                /\ UNCHANGED contexts
    /\ UNCHANGED <<user, user_version, disk>>
    /\ UNCHANGED threadVars

\* FontContext::default_families (a read of the system collection)
DefaultFamiliesOut == SystemDefaultFamilies(system)

\* FontContext::fallback_families
FallbackQuery(c, script, locale) ==
    /\ Created(c)
    /\ LET r == SystemFallbackFamilies(system, script, locale)
       IN  /\ system' = r.sys
           /\ last' = Call("fallback_families", <<script, locale>>, r.out, 0)
    /\ UNCHANGED <<user, user_version, contexts, disk>>
    /\ UNCHANGED threadVars

\* register_fonts, lines 137-139: the count, with unwrap_or(0) applied
UnwrapCount(r) ==
    [sys |-> r.sys, reg |-> r.reg,
     count |-> IF r.count = None THEN 0 ELSE Unwrap(r.count)]

\* The version advanced by the number of accepted faces
NextVersionByCount(version, count) == version + count

\* register_fonts, lines 140-148: the version after the call
NextVersion(version, count) == IF count # 0 THEN version + 1 ELSE version

\* register_fonts, lines 130-139: add_fonts on the system collection
RegisterIn(sys, bytes, tie) ==
    UnwrapCount(SystemAddFonts(sys, BlobOf(bytes), SourceFromData(bytes),
                               Some([families |-> <<>>, fonts |-> <<>>]), tie))

\* FontContext::register_fonts
RegisterFonts(c, bytes) ==
    /\ Created(c)
    /\ \E r \in {RegisterIn(system, bytes, tie) : tie \in Ties} :
           /\ system' = r.sys
           /\ user_version' = NextVersion(user_version, r.count)
           /\ last' = Call("register_fonts", bytes,
                           IF r.count # 0 THEN r.reg ELSE None, 0)
    /\ UNCHANGED <<user, contexts, disk>>
    /\ UNCHANGED threadVars

\* The holders of a loaded source's bytes drop them: its weak reference dies
DropSystemBytes(i) ==
    /\ system.kind = "Scanned"
    /\ i \in 1..Len(system.collection.sources)
    /\ system.collection.sources[i].status.alive
    /\ system' = ScannedSystem([system.collection EXCEPT
                                   !.sources[i].status.alive = FALSE])
    /\ UNCHANGED <<user, user_version, contexts, disk, last>>
    /\ UNCHANGED threadVars

DropStaticBytes(i) ==
    /\ system.kind = "Static"
    /\ i \in 1..Len(system.static.sources)
    /\ system.static.sources[i].alive
    /\ system' = StaticSystem([system.static EXCEPT !.sources[i].alive = FALSE])
    /\ UNCHANGED <<user, user_version, contexts, disk, last>>
    /\ UNCHANGED threadVars

\* Another program rewrites or removes a font file
WriteFile(path, bytes) ==
    /\ disk[path] # bytes
    /\ disk' = [disk EXCEPT ![path] = bytes]
    /\ UNCHANGED <<system, user, user_version, contexts, last>>
    /\ UNCHANGED threadVars

\* Ingestion, name lookup and the contexts' snapshots
Next ==
    \/ SetupDefault
    \/ \E c \in Ctx : NewContext(c)
    \/ \E c \in Ctx, id \in QueryIds : PointQuery(c, id)
    \/ \E c \in Ctx, name \in QueryNames : FamilyByName(c, name)
    \/ \E c \in Ctx, b \in UserBlobs : RegisterFonts(c, b)

Spec == Init /\ [][Next]_vars

\* The source byte cache: loads, dropped bytes and a changing file system
NextCache ==
    \/ NewContext("c1")
    \/ \E name \in QueryNames : FamilyByName("c1", name)
    \/ \E b \in {"fo", "noto"} : RegisterFonts("c1", b)
    \/ \E id \in QueryIds : LoadFont("c1", id)
    \/ \E i \in 1..IndexLimit : DropSystemBytes(i)
    \/ \E i \in 1..IndexLimit : DropStaticBytes(i)
    \/ \E p \in Paths, b \in FileContents : WriteFile(p, b)

SpecCache == Init /\ [][NextCache]_vars

\* Fallback resolution
NextFallback ==
    \/ SetupDefault
    \/ \E c \in Ctx : NewContext(c)
    \/ \E b \in UserBlobs : RegisterFonts("c1", b)
    \/ \E c \in Ctx, s \in QueryScripts, l \in QueryLocales : FallbackQuery(c, s, l)

SpecFallback == Init /\ [][NextFallback]_vars

-----------------------------------------------------------------------------
(* Properties.                                                             *)

IdOf(index, is_user) == [index |-> index, user |-> is_user]

\* The (family, position) places of a collection's family font lists
Entries(c) ==
    {<<i, j>> \in (1..Len(c.families)) \X (1..IndexLimit) :
        j <= Len(c.families[i].fonts)}

EntryId(c, e) == c.families[e[1]].fonts[e[2]][1]

\* The ids of one collection: the font ids are exactly 0 .. fonts.len()-1,
\* each listed once; the family ids are exactly 0 .. families.len()-1, each
\* under one name; every id carries the collection's origin bit.
DenseIds(c) ==
    /\ Cardinality(Entries(c)) = Len(c.fonts)
    /\ \A k \in 0..(Len(c.fonts) - 1) :
           Cardinality({e \in Entries(c) : EntryId(c, e) = IdOf(k, c.is_user)}) = 1
    /\ \A k \in 0..(Len(c.families) - 1) :
           Cardinality({n \in DOMAIN c.family_map :
                           c.family_map[n] = Some(IdOf(k, c.is_user))}) = 1
    /\ \A n \in DOMAIN c.family_map :
           IsSome(c.family_map[n]) =>
               /\ Unwrap(c.family_map[n]).user = c.is_user
               /\ Unwrap(c.family_map[n]).index < Len(c.families)
    /\ \A i \in 1..Len(c.fonts) :
           /\ c.fonts[i].family.user = c.is_user
           /\ c.fonts[i].source.user = c.is_user
           /\ c.fonts[i].family.index < Len(c.families)

\* The collection the system backing ingests into (empty for a static one)
SystemCollection ==
    IF system.kind = "Scanned" THEN system.collection ELSE NewCollection(FALSE)

Registered == last.op = "register_fonts" /\ IsSome(last.out)
LastReg == Unwrap(last.out)

\* The ids from..to-1 in order, with the origin bit of collection c
IdRange(c, from, to) == [k \in 1..(to - from) |-> IdOf(from + k - 1, c.is_user)]

NewFamilies(c, reg) ==
    SelectSeq(reg.families,
              LAMBDA id : \A e \in Entries(c) :
                  e[1] = id.index + 1 => Contains(reg.fonts, EntryId(c, e)))

\* C1: ids are dense and never reused.  In every state the font ids of a
\* collection are 0 .. n-1, each used once, the family ids are 0 .. m-1,
\* each used once, and all carry the collection's origin bit; the fonts a
\* registration returns are the last ids of the collection, in order, one
\* per accepted face (a rejected or skipped face took none), and the
\* families it created are the last family ids, in order.
C1_DenseIds ==
    /\ DenseIds(SystemCollection)
    /\ DenseIds(user)
    /\ Registered =>
           LET c == SystemCollection
               n == Len(LastReg.fonts)
               created == NewFamilies(c, LastReg)
           IN  /\ n >= 1
               /\ LastReg.fonts = IdRange(c, Len(c.fonts) - n, Len(c.fonts))
               /\ created = IdRange(c, Len(c.families) - Len(created), Len(c.families))

\* A blob with an unnamed, an unreadable and a duplicate-free face was
\* registered after other faces: the accepted face got the next id.
C1_Witness ==
    /\ Registered
    /\ last.arg = "noto"
    /\ Len(SystemCollection.fonts) >= 3
    /\ Len(SystemCollection.families) >= 2

Triple(entry) == <<entry[2], entry[3], entry[4]>>

NoDuplicateTriples(c) ==
    \A i \in 1..Len(c.families) :
        \A j, k \in 1..Len(c.families[i].fonts) :
            j # k => Triple(c.families[i].fonts[j]) # Triple(c.families[i].fonts[k])

\* The scanned faces of a blob that the family lists hold under another id
\* than one the registration returned
HeldByEarlierFont(c, reg, font) ==
    /\ font.lowercase_name \in DOMAIN c.family_map
    /\ IsSome(c.family_map[font.lowercase_name])
    /\ \E e \in Entries(c) :
           /\ e[1] = Unwrap(c.family_map[font.lowercase_name]).index + 1
           /\ Triple(c.families[e[1]].fonts[e[2]]) = font.attributes
           /\ ~Contains(reg.fonts, EntryId(c, e))

RegFonts == IF IsSome(last.out) THEN LastReg.fonts ELSE <<>>

\* C2: no family holds two entries with one (stretch, weight, style); after
\* a register_fonts call every face of the blob is in its family exactly
\* once, and the Registration has one id per face the call added: a face
\* whose triple the family held already is not among them.
C2_NoDuplicateFaces ==
    /\ NoDuplicateTriples(SystemCollection)
    /\ NoDuplicateTriples(user)
    /\ (last.op = "register_fonts" /\ system.kind = "Scanned") =>
           LET c == SystemCollection
               scanned == Scan(BlobOf(last.arg))
               dups == {i \in 1..Len(scanned) :
                           HeldByEarlierFont(c, [fonts |-> RegFonts], scanned[i])}
           IN  Len(RegFonts) + Cardinality(dups) <= Len(scanned)

\* A two-face blob was registered after one of its faces: one id returned.
C2_Witness ==
    /\ Registered
    /\ last.arg = "fo2"
    /\ Len(LastReg.fonts) = 1
    /\ Len(SystemCollection.families[1].fonts) = 2

\* The snapshot a context holds, or the one FontContext::new would build
ContextView(c) == IF Created(c) THEN Snapshot(c) ELSE NewSnapshot

\* The entries of a family entry that a registration added
HasFonts(entry, reg) ==
    \E j \in 1..Len(entry.fonts) : Contains(reg.fonts, entry.fonts[j][1])

\* C3: after register_fonts returned a Registration, every context, made
\* before or after the call, finds each family and each font of it on its
\* next query: family(id) and family_by_name(its name) return the family
\* with the new fonts in it, and font(id) returns the font of a family of
\* the Registration.
C3_RegisteredFamilyVisible ==
    Registered =>
        \A c \in Ctx :
            /\ \A k \in 1..Len(LastReg.families) :
                   LET id == LastReg.families[k]
                       out == FamilyOut(ContextView(c), id)
                   IN  /\ IsSome(out)
                       /\ Unwrap(out).id = id
                       /\ HasFonts(Unwrap(out), LastReg)
                       /\ \A tie \in Ties :
                              FamilyByNameOut(Unwrap(out).name, tie) = out
            /\ \A k \in 1..Len(LastReg.fonts) :
                   LET out == FontOut(ContextView(c), LastReg.fonts[k])
                   IN  /\ IsSome(out)
                       /\ Unwrap(out).id = LastReg.fonts[k]
                       /\ Contains(LastReg.families, Unwrap(out).family)

\* One context made before the registration still holds the older version
\* and another is not made yet.
C3_Witness ==
    /\ Registered
    /\ \E c \in Ctx : Created(c) /\ Snapshot(c).version < user_version
    /\ \E c \in Ctx : ~Created(c)

\* The step is a register_fonts call
RegisterStep ==
    /\ last'.op = "register_fonts"
    /\ \E c \in Ctx, b \in UserBlobs : RegisterFonts(c, b)

FontCount == Len(SystemCollection.fonts)

\* C4: the version counter never decreases; a register_fonts call that adds
\* at least one face raises it by exactly one and returns a Registration,
\* one that adds none leaves it and returns None, and no other call
\* changes it.
C4_VersionCounter ==
    [][/\ user_version' >= user_version
       /\ RegisterStep =>
              /\ FontCount' > FontCount =>
                     user_version' = user_version + 1 /\ IsSome(last'.out)
              /\ FontCount' = FontCount =>
                     user_version' = user_version /\ last'.out = None
       /\ ~RegisterStep => user_version' = user_version]_vars

\* Two registrations were counted and a third call added nothing.
C4_Witness ==
    /\ user_version = 2
    /\ last.op = "register_fonts"
    /\ last.out = None
    /\ \E c \in Ctx : Created(c) /\ Snapshot(c).version = 2

\* A snapshot agrees with the library's user collection in everything that
\* a resync copies
SnapshotValid(snapshot) ==
    /\ snapshot.data.families = user.families
    /\ snapshot.data.fonts = user.fonts
    /\ snapshot.data.sources = user.sources
    /\ snapshot.data.family_map = user.family_map

\* C5: a context's snapshot is valid (equal to the user collection) if and
\* only if the version it captured is the library's current version.
C5_ValidIffCurrent ==
    \A c \in Ctx :
        Created(c) =>
            (SnapshotValid(Snapshot(c)) <=> Snapshot(c).version = user_version)

RegIds(reg) == SeqToSet(reg.families) \cup SeqToSet(reg.fonts)

Indexed(c) == <<c.families, c.fonts, c.sources>>

\* C6: register_fonts ingests into the user collection: the ids of the
\* Registration carry the user origin bit, the user collection holds the
\* accepted faces, and the system collection's families, fonts and sources
\* are as before the call.
C6_RegistersIntoUser ==
    [][(RegisterStep /\ IsSome(last'.out)) =>
           /\ \A id \in RegIds(Unwrap(last'.out)) : IsUserFont(id)
           /\ Len(user'.fonts) = Len(user.fonts) + Len(Unwrap(last'.out).fonts)
           /\ Indexed(SystemCollection') = Indexed(SystemCollection)]_vars

-----------------------------------------------------------------------------
(* Properties of the source byte cache, under SpecCache.                   *)

\* The step is a load of source id
LoadStep(id) ==
    /\ last'.op = "load"
    /\ last'.arg = id
    /\ \E c \in Ctx : LoadFont(c, id)

\* The status cell of a system source, Vacant when there is no such source
StatusOf(sys, id) ==
    IF id.user THEN Vacant
    ELSE IF sys.kind = "Static"
    THEN (IF id.index < Len(sys.static.sources)
          THEN sys.static.sources[id.index + 1] ELSE Vacant)
    ELSE (IF id.index < Len(sys.collection.sources)
          THEN sys.collection.sources[id.index + 1].status ELSE Vacant)

\* The bytes of a system source are held: by a caller that loaded them, or
\* by the source itself when it was registered from memory
BytesHeld(sys, id) ==
    \/ StatusOf(sys, id).alive
    \/ /\ sys.kind = "Scanned"
       /\ ~id.user
       /\ id.index < Len(sys.collection.sources)
       /\ sys.collection.sources[id.index + 1].kind = "Data"

AfterLoadOf(id) == last.op = "load" /\ last.arg = id /\ IsSome(last.out)

\* C7, as claimed: two consecutive loads of a source that both succeed
\* return the same bytes and read the disk at most once between them.
C7_ConsecutiveLoads ==
    [][\A id \in QueryIds :
           (AfterLoadOf(id) /\ LoadStep(id) /\ IsSome(last'.out)) =>
               /\ last'.out = last.out
               /\ last.reads + last'.reads <= 1]_vars

\* C7, amended: when the bytes the first load returned are still held at
\* the second load, the second returns the same bytes without a disk read.
C7_ConsecutiveLoadsWhileHeld ==
    [][\A id \in QueryIds :
           (AfterLoadOf(id) /\ LoadStep(id) /\ IsSome(last'.out)
                /\ BytesHeld(system, id)) =>
               /\ last'.out = last.out
               /\ last'.reads = 0
               /\ last.reads + last'.reads <= 1]_vars

\* A load of a file-backed source was served from the cache.
C7_Witness ==
    /\ last.op = "load"
    /\ IsSome(last.out)
    /\ last.reads = 0
    /\ StatusOf(system, last.arg).tag = "Present"
    /\ disk["p1"] # Unwrap(last.out)

SystemSlots ==
    {[index |-> i, user |-> FALSE] : i \in 0..(IndexLimit - 1)}

\* C8: a load that fails with an I/O error leaves the source's status at
\* Error; the status stays Error in every later state, and every later
\* load of the source returns nothing and reads nothing.
C8_StickyError ==
    /\ [](\A id \in SystemSlots :
              (last.op = "load" /\ last.arg = id /\ last.out = None
                   /\ last.reads = 1) => StatusOf(system, id).tag = "Error")
    /\ [][\A id \in SystemSlots :
              StatusOf(system, id).tag = "Error" =>
                  /\ StatusOf(system', id).tag = "Error"
                  /\ LoadStep(id) => (last'.out = None /\ last'.reads = 0)]_vars

\* A source failed to load, the file came back, and a later load of the
\* source still returned nothing without reading it.
C8_Witness ==
    /\ last.op = "load"
    /\ last.out = None
    /\ last.reads = 0
    /\ StatusOf(system, last.arg).tag = "Error"
    /\ disk["p1"] # "missing"

\* The per-variant Han lists of the system collection's backing
CjkFamilies(sys) ==
    IF sys.kind = "Scanned" THEN sys.collection.cjk_families
    ELSE sys.static.data.cjk_families

\* The variant a locale selects, "None" when the locale is absent
VariantOf(locale) ==
    IF locale = None THEN "None" ELSE LangCjk(Unwrap(locale))

FallbackCall(script) ==
    /\ last.op = "fallback_families"
    /\ last.arg[1] = script

\* The static backing's script-tag table holds an entry for Han's tag
HanTagEntries(sys) ==
    IF sys.kind = "Static"
    THEN {e \in SeqToSet(sys.static.data.script_fallbacks) :
              e.script = ScriptTag("Han")}
    ELSE {}

\* C9: fallback_families(Han, locale) returns exactly the list of the CJK
\* variant the locale selects (the "None" variant's list for an absent
\* locale), in the scanned and in the static backing, whether or not the
\* script-tag table holds an entry for Han's tag.
C9_HanFallbackByVariant ==
    FallbackCall("Han") =>
        last.out = CjkFamilies(system)[CjkAsUsize(VariantOf(last.arg[2])) + 1]

\* A Han query with a locale was answered with a non-empty variant list
\* while the script-tag table held a different list under Han's tag.
C9_Witness ==
    /\ FallbackCall("Han")
    /\ last.arg[2] = Some("zh-Hans")
    /\ last.out # <<>>
    /\ HanTagEntries(system) # {}
    /\ \A e \in HanTagEntries(system) : e.families # last.out

\* The scripts the faces of a blob declare
DeclaredBy(bytes) ==
    LET blob == BlobOf(bytes)
    IN  UNION {{ws.script : ws \in blob.faces[i].ws} :
                   i \in {j \in 1..Len(blob.faces) : blob.faces[j].readable}}

\* The static backing's table holds a fallback list for the script's tag
StaticListed(sys, script) ==
    /\ sys.kind = "Static"
    /\ \E e \in SeqToSet(sys.static.data.script_fallbacks) :
           e.script = ScriptTag(script)

\* The non-Han scripts that no face that can be ingested declares
UndeclaredScripts ==
    {s \in QueryScripts \ {"Han"} :
         \A b \in UserBlobs \cup FileContents : s \notin DeclaredBy(b)}

\* C10: for a non-Han script that no ingested face declares and that has
\* no fallback list, fallback_families returns exactly default_families(),
\* after any earlier queries and registrations, in both backings.
C10_UnregisteredScriptGetsDefault ==
    \A s \in UndeclaredScripts :
        (FallbackCall(s) /\ ~StaticListed(system, s)) =>
            last.out = DefaultFamiliesOut

-----------------------------------------------------------------------------
(* Registration against the static backing.                                *)

\* add_fonts on the static variant returns no count, whatever the blob
StaticAddFontsFails ==
    \A b \in UserBlobs, tie \in Ties :
        SystemAddFonts(system, BlobOf(b), SourceFromData(b),
                       Some([families |-> <<>>, fonts |-> <<>>]), tie).count = None

\* C11: registration against the static backing always fails: add_fonts
\* returns no count for every blob, register_fonts returns None, the
\* version counter is not advanced and the static table is unchanged.
C11_StaticRegisterFails ==
    /\ [](system.kind = "Static" =>
              /\ StaticAddFontsFails
              /\ system.static.data = StaticData
              /\ user_version = 0
              /\ last.op = "register_fonts" => last.out = None)
    /\ [][(system.kind = "Static" /\ RegisterStep) =>
              /\ last'.out = None
              /\ user_version' = user_version
              /\ system' = system]_vars

\* A blob holding a face that a scanned collection accepts was offered to
\* a static backing.
C11_Witness ==
    /\ system.kind = "Static"
    /\ last.op = "register_fonts"
    /\ last.arg = "fo2"
    /\ Scan(BlobOf(last.arg)) # <<>>

-----------------------------------------------------------------------------
(* Name lookup.                                                            *)

\* The spellings of a family name that differ from it in letter case only
CaseVariants(name) ==
    {name, ToLower(name)} \cup {m \in QueryNames : ToLower(m) = ToLower(name)}

\* The family entry lists the font of record k with the record's weight
ListsFont(entry, c, k) ==
    \E j \in 1..Len(entry.fonts) :
        /\ entry.fonts[j][1] = IdOf(k - 1, c.is_user)
        /\ entry.fonts[j][3] = c.fonts[k].attributes[2]

\* family_by_name(m) is the family of id, with every accepted face of it
FoundAs(c, id, m, tie) ==
    LET out == FamilyByNameOut(m, tie)
    IN  /\ IsSome(out)
        /\ Unwrap(out).id = id
        /\ Unwrap(out) = Unwrap(Family(c, id))
        /\ \A k \in 1..Len(c.fonts) :
               c.fonts[k].family = id => ListsFont(Unwrap(out), c, k)

-----------------------------------------------------------------------------
(* Fallback lists and registration, under SpecFallback.                    *)

\* The families of the faces declaring `script` that a registration of
\* `bytes` added to collection c
RegisteredFor(c, reg, bytes, script) ==
    {c.fonts[reg.fonts[k].index + 1].family :
         k \in {j \in 1..Len(reg.fonts) :
                    \E i \in 1..Len(Scan(BlobOf(bytes))) :
                        /\ Scan(BlobOf(bytes))[i].index =
                               c.fonts[reg.fonts[j].index + 1].index
                        /\ <<script, "None">> \in Scan(BlobOf(bytes))[i].scripts}}

\* What fallback_families(script, None) returns in a system collection
FallbackOut(sys, script) == SystemFallbackFamilies(sys, script, None).out

\* The scanned backing holds a fallback list for the script's tag
ScannedListed(sys, script) ==
    /\ sys.kind = "Scanned"
    /\ ScriptTag(script) \in DOMAIN sys.collection.script_fallbacks

IsPrefix(s, t) == Len(s) <= Len(t) /\ SubSeq(t, 1, Len(s)) = s

\* C13 as stated: after a registration of a face with Latin coverage,
\* fallback_families(Latin, None) includes the face's family if no Latin
\* list existed before, and is the same list as before if one existed.
C13_LatinFallbackUnaffected ==
    [][(RegisterStep /\ IsSome(last'.out)) =>
           \A f \in RegisteredFor(SystemCollection', Unwrap(last'.out),
                                  last'.arg, "Latin") :
               /\ ~ScannedListed(system, "Latin") =>
                      Contains(FallbackOut(system', "Latin"), f)
               /\ ScannedListed(system, "Latin") =>
                      FallbackOut(system', "Latin") = FallbackOut(system, "Latin")]_vars

\* C13, amended: after a registration of a face with Latin coverage,
\* fallback_families(Latin, None) includes the face's family whether or
\* not a Latin list existed before; a list that existed keeps its entries
\* in their order in front, and the family is appended when it was not in
\* the list.
C13_LatinFallbackAppended ==
    [][(RegisterStep /\ IsSome(last'.out)) =>
           \A f \in RegisteredFor(SystemCollection', Unwrap(last'.out),
                                  last'.arg, "Latin") :
               /\ Contains(FallbackOut(system', "Latin"), f)
               /\ IsPrefix(FallbackOut(system, "Latin"), FallbackOut(system', "Latin"))
               /\ Len(FallbackOut(system', "Latin")) <=
                      Len(FallbackOut(system, "Latin")) + 1
               /\ Contains(FallbackOut(system, "Latin"), f) =>
                      FallbackOut(system', "Latin") = FallbackOut(system, "Latin")]_vars

\* A face with Latin coverage was registered when a Latin list of another
\* family existed: the list now holds both families.
C13_Witness ==
    /\ Registered
    /\ RegisteredFor(SystemCollection, LastReg, last.arg, "Latin") # {}
    /\ ScannedListed(system, "Latin")
    /\ Len(FallbackOut(system, "Latin")) >= 2
    /\ \A f \in RegisteredFor(SystemCollection, LastReg, last.arg, "Latin") :
           FallbackOut(system, "Latin")[Len(FallbackOut(system, "Latin"))] = f

-----------------------------------------------------------------------------
(* Point queries made of a collection itself, by a caller that holds the   *)
(* library's collections (SystemCollectionData and CollectionData are      *)
(* public types with public query methods).                                *)

QueryKinds == {"family", "font", "source"}

\* SystemCollectionData::family / font / source
SystemQueryOut(kind, id) ==
    CASE kind = "family" -> SystemFamily(system, id)
      [] kind = "font" -> SystemFont(system, id)
      [] kind = "source" -> SystemSource(system, id)

\* CollectionData::family / font / source of the user collection
UserQueryOut(kind, id) ==
    CASE kind = "family" -> Family(user, id)
      [] kind = "font" -> Font(user, id)
      [] kind = "source" -> Source(user, id)

\* A point query of the system collection
SystemQuery(kind, id) ==
    /\ last' = Call(kind, <<"system", id>>, SystemQueryOut(kind, id), 0)
    /\ UNCHANGED <<system, user, user_version, contexts, disk>>
    /\ UNCHANGED threadVars

\* A point query of the user collection
UserQuery(kind, id) ==
    /\ last' = Call(kind, <<"user", id>>, UserQueryOut(kind, id), 0)
    /\ UNCHANGED <<system, user, user_version, contexts, disk>>
    /\ UNCHANGED threadVars

\* SystemCollectionData::load
SystemLoadQuery(id) ==
    /\ LET r == SystemLoad(system, id, disk)
       IN  /\ system' = r.sys
           /\ last' = Call("load", <<"system", id>>, r.out, r.reads)
    /\ UNCHANGED <<user, user_version, contexts, disk>>
    /\ UNCHANGED threadVars

\* Registrations and point queries of the collections
NextQuery ==
    \/ NewContext("c1")
    \/ \E b \in {"fo", "fo2"} : RegisterFonts("c1", b)
    \/ \E k \in QueryKinds, id \in QueryIds : SystemQuery(k, id)
    \/ \E k \in QueryKinds, id \in QueryIds : UserQuery(k, id)
    \/ \E id \in QueryIds : SystemLoadQuery(id)

SpecQuery == Init /\ [][NextQuery]_vars

\* The call was a point query of a collection with an id of the other origin
MismatchedQuery ==
    /\ last.op \in QueryKinds \cup {"load"}
    /\ \/ last.arg[1] = "system" /\ last.arg[2].user
       \/ last.arg[1] = "user" /\ ~last.arg[2].user

\* C14: a point query (family, font, source, load) with an id whose origin
\* bit does not match the collection queried returns absent, never an
\* entry of the collection at the same index.
C14_MismatchNotFound ==
    MismatchedQuery => last.out = None

-----------------------------------------------------------------------------
(* Snapshots and registrations.                                            *)

\* The snapshot holds every family and font of a registration
HoldsRegistration(snapshot, reg) ==
    /\ \A k \in 1..Len(reg.fonts) : IsSome(Font(snapshot.data, reg.fonts[k]))
    /\ \A k \in 1..Len(reg.families) :
           /\ IsSome(Family(snapshot.data, reg.families[k]))
           /\ \E n \in DOMAIN snapshot.data.family_map :
                  snapshot.data.family_map[n] = Some(reg.families[k])

\* C15: a snapshot stamped with version N holds the complete effect (the
\* accepted fonts, their families, the source and the name-map entries) of
\* every registration that produced a version up to N: a context whose
\* snapshot carries the library's current version holds the fonts and
\* families of the registration that produced it.
C15_StampedSnapshotComplete ==
    \A c \in Ctx :
        (Created(c) /\ Registered /\ Snapshot(c).version = user_version) =>
            /\ HoldsRegistration(Snapshot(c), LastReg)
            /\ Len(Snapshot(c).data.sources) >= 1

-----------------------------------------------------------------------------
(* Rejected faces.                                                         *)

\* The family of the scanned face's name holds the face's triple
HoldsFace(c, font) ==
    /\ font.lowercase_name \in DOMAIN c.family_map
    /\ IsSome(c.family_map[font.lowercase_name])
    /\ \E e \in Entries(c) :
           /\ e[1] = Unwrap(c.family_map[font.lowercase_name]).index + 1
           /\ Triple(c.families[e[1]].fonts[e[2]]) = font.attributes

\* No further font, family or source id can be allocated in c
IdsExhausted(c) ==
    \/ Len(c.fonts) >= IndexLimit
    \/ Len(c.families) >= IndexLimit
    \/ Len(c.sources) >= IndexLimit

\* C17: a scanned face with a resolvable name is rejected only when its
\* (stretch, weight, style) is in its family already or an id allocation
\* overflows: after a register_fonts call on a scanned collection every
\* scanned face of the blob is in its family unless the ids are exhausted,
\* whatever lookups were made before.
C17_RejectedOnlyAsDuplicate ==
    (last.op = "register_fonts" /\ system.kind = "Scanned") =>
        \A i \in 1..Len(Scan(BlobOf(last.arg))) :
            \/ HoldsFace(SystemCollection, Scan(BlobOf(last.arg))[i])
            \/ IdsExhausted(SystemCollection)

-----------------------------------------------------------------------------
(* Ingestion: the order of a family's fonts, the sources and the fallback  *)
(* lists, under SpecIngest.                                                *)

\* The blobs registered: those of UserBlobs and one with two more faces of
\* the weight of another face of the family
IngestBlobs == UserBlobs \cup {"fo3"}

\* Registrations, with the lookups that scan a file and the queries that
\* touch the fallback lists
NextIngest ==
    \/ SetupDefault
    \/ NewContext("c1")
    \/ \E b \in IngestBlobs : RegisterFonts("c1", b)
    \/ \E name \in {NameBa, <<"f", "o">>} : FamilyByName("c1", name)
    \/ \E s \in {"Latin", "Arabic"} : FallbackQuery("c1", s, None)

SpecIngest == Init /\ [][NextIngest]_vars

SortedByWeight(fonts) ==
    \A j, k \in 1..Len(fonts) : j < k => fonts[j][3] <= fonts[k][3]

\* The entries of `after` that `before` held, in the order of `after`
Kept(before, after) ==
    SelectSeq(after, LAMBDA e : Contains(before, e))

\* C18: every family's font list is in non-decreasing order of weight in
\* every state, and a step that inserts a face leaves the entries the
\* list held in their relative order.
C18_SortedByWeight ==
    /\ [](\A i \in 1..Len(SystemCollection.families) :
              SortedByWeight(SystemCollection.families[i].fonts))
    /\ [][\A i \in 1..Len(SystemCollection.families) :
              Kept(SystemCollection.families[i].fonts,
                   SystemCollection'.families[i].fonts) =
                  SystemCollection.families[i].fonts]_vars

\* A family holds three faces of one weight and none was inserted last in
\* the list, or a lighter face was inserted before a heavier one.
C18_Witness ==
    /\ Registered
    /\ Len(SystemCollection.families) >= 1
    /\ LET fonts == SystemCollection.families[1].fonts
       IN  /\ Len(fonts) = 3
           /\ fonts[1][3] = fonts[3][3]
           /\ ~Contains(LastReg.fonts, fonts[3][1])

\* C19: an ingestion call that accepts at least one face appends exactly
\* one SourceData, however many faces it accepts, and every FontData
\* record the call creates has the id of that SourceData as its source; a
\* call that accepts none appends no source.
C19_OneSourcePerCall ==
    [][LET c == SystemCollection
           d == SystemCollection'
       IN  /\ Len(d.fonts) > Len(c.fonts) =>
                  /\ Len(d.sources) = Len(c.sources) + 1
                  /\ SubSeq(d.sources, 1, Len(c.sources)) = c.sources
                  /\ \A k \in (Len(c.fonts) + 1)..Len(d.fonts) :
                         d.fonts[k].source = IdOf(Len(c.sources), c.is_user)
           /\ Len(d.fonts) = Len(c.fonts) => d.sources = c.sources
           /\ SubSeq(d.fonts, 1, Len(c.fonts)) = c.fonts]_vars

\* A call accepted two faces of one blob after another call: both fonts
\* have the one source the call appended.
C19_Witness ==
    /\ Registered
    /\ Len(LastReg.fonts) = 2
    /\ Len(SystemCollection.sources) = 2
    /\ \A k \in 1..2 :
           SystemCollection.fonts[LastReg.fonts[k].index + 1].source = IdOf(1, FALSE)
    /\ SystemCollection.sources[2] = SourceFromData(last.arg)

NoRepeat(list) ==
    \A j, k \in 1..Len(list) : j # k => list[j] # list[k]

\* The fallback lists of a collection: per script tag and per CJK variant
ListsOnce(c) ==
    /\ \A tag \in DOMAIN c.script_fallbacks : NoRepeat(c.script_fallbacks[tag])
    /\ \A v \in 1..CJK_FAMILY_COUNT : NoRepeat(c.cjk_families[v])

\* Every list of c is a prefix of the list of d
ListsExtended(c, d) ==
    /\ \A tag \in DOMAIN c.script_fallbacks :
           /\ tag \in DOMAIN d.script_fallbacks
           /\ IsPrefix(c.script_fallbacks[tag], d.script_fallbacks[tag])
    /\ \A v \in 1..CJK_FAMILY_COUNT : IsPrefix(c.cjk_families[v], d.cjk_families[v])

\* C20: every script fallback list and every CJK-variant list holds each
\* FamilyId at most once, and every step leaves each list a prefix of
\* what it becomes: the lists only grow by appending.
C20_ListsAppendOnly ==
    /\ [](ListsOnce(SystemCollection) /\ ListsOnce(user))
    /\ [][/\ ListsExtended(SystemCollection, SystemCollection')
          /\ ListsExtended(user, user')]_vars

\* A further face of the first family of a two-family Latin list was
\* registered: the list did not take the family again.
C20_Witness ==
    /\ Registered
    /\ last.arg = "fo2"
    /\ ScannedListed(system, "Latin")
    /\ Len(FallbackOut(system, "Latin")) = 2
    /\ Contains(LastReg.families, FallbackOut(system, "Latin")[1])
    /\ \E v \in 1..CJK_FAMILY_COUNT : SystemCollection.cjk_families[v] # <<>>

-----------------------------------------------------------------------------
(* Ingestion calls that accept nothing, under SpecIngest.                  *)

\* add_fonts of the blob into c, with and without a Registration
Ingested(c, bytes, reg, tie) ==
    AddFonts(c, BlobOf(bytes), SourceFromData(bytes), reg, tie)

EmptyRegistration == Some([families |-> <<>>, fonts |-> <<>>])

\* An add_fonts call on c that accepts no face returns c as it was
ZeroIsNoOp(c) ==
    \A b \in IngestBlobs \cup FileContents, tie \in Ties, reg \in {None, EmptyRegistration} :
        Ingested(c, b, reg, tie).count \in {None, Some(0)} =>
            /\ Ingested(c, b, reg, tie).c = c
            /\ Ingested(c, b, reg, tie).reg = reg

\* The step is a register_fonts call of one of the blobs of IngestBlobs
IngestRegisterStep ==
    /\ last'.op = "register_fonts"
    /\ \E b \in IngestBlobs : RegisterFonts("c1", b)

\* C16: an ingestion call that accepts zero faces is a no-op: it adds no
\* family, font, source, name-map entry or fallback-list entry (the
\* collection is as before, so every query answers as before), and a
\* register_fonts call that returns None leaves both collections as they
\* were.
C16_ZeroAcceptedIsNoOp ==
    /\ [](ZeroIsNoOp(SystemCollection) /\ ZeroIsNoOp(user))
    /\ [][(IngestRegisterStep /\ last'.out = None) =>
              (system' = system /\ user' = user)]_vars

\* A two-face blob was offered to a collection that held both faces: the
\* call accepted nothing.
C16_Witness ==
    /\ last.op = "register_fonts"
    /\ last.arg = "fo2"
    /\ last.out = None
    /\ system.kind = "Scanned"
    /\ Len(SystemCollection.fonts) >= 2
    /\ Ingested(SystemCollection, "fo2", EmptyRegistration, "low").count = Some(0)

-----------------------------------------------------------------------------
(* The faces of one blob, under SpecFaces.                                 *)

\* The blobs registered: one face, two faces of one family, two faces of
\* two families
FaceBlobs == {"fo", "fo2", "bf"}

\* Registrations and the lookups made before them
NextFaces ==
    \/ NewContext("c1")
    \/ \E b \in FaceBlobs : RegisterFonts("c1", b)
    \/ \E name \in {NameBa, <<"f", "o">>} : FamilyByName("c1", name)

SpecFaces == Init /\ [][NextFaces]_vars

\* C21: ingestion is best-effort per face: when a face of the blob was
\* rejected as a duplicate, every other face of the blob is in its family
\* after the call unless the ids are exhausted, and the Registration
\* holds one font id per accepted face.
C21_BestEffortPerFace ==
    (last.op = "register_fonts" /\ system.kind = "Scanned") =>
        LET c == SystemCollection
            scanned == Scan(BlobOf(last.arg))
        IN  \A i \in 1..Len(scanned) :
                HeldByEarlierFont(c, [fonts |-> RegFonts], scanned[i]) =>
                    /\ \A j \in 1..Len(scanned) :
                           HoldsFace(c, scanned[j]) \/ IdsExhausted(c)
                    /\ Len(RegFonts) =
                           Cardinality({j \in 1..Len(scanned) :
                               ~HeldByEarlierFont(c, [fonts |-> RegFonts], scanned[j])})

\* C22: the Registration of an ingestion call holds exactly the ids the
\* call introduced: its fonts are the ids of the faces the call accepted,
\* one per face, and its families are the families the call created (all
\* of whose fonts the call added), each listed once.
C22_RegistrationIsNewIds ==
    (Registered /\ system.kind = "Scanned") =>
        LET c == SystemCollection
            n == Len(LastReg.fonts)
        IN  /\ LastReg.fonts = IdRange(c, Len(c.fonts) - n, Len(c.fonts))
            /\ NoRepeat(LastReg.families)
            /\ LastReg.families = NewFamilies(c, LastReg)

\* C23: a family's has_stretch flag is true exactly when one of its font
\* entries has a stretch other than normal.
C23_HasStretchFlag ==
    \A i \in 1..Len(SystemCollection.families) :
        SystemCollection.families[i].has_stretch <=>
            \E j \in 1..Len(SystemCollection.families[i].fonts) :
                SystemCollection.families[i].fonts[j][2] # "NORMAL"

\* A registration added a condensed face to a family that held a normal
\* one, and another family holds normal faces only.
C23_Witness ==
    /\ Registered
    /\ Len(SystemCollection.families) >= 2
    /\ \E i \in 1..Len(SystemCollection.families) :
           /\ SystemCollection.families[i].has_stretch
           /\ Len(SystemCollection.families[i].fonts) >= 2
           /\ \E j \in 1..Len(SystemCollection.families[i].fonts) :
                  SystemCollection.families[i].fonts[j][2] = "NORMAL"
           /\ Contains(LastReg.families, IdOf(i - 1, FALSE))
    /\ \E i \in 1..Len(SystemCollection.families) :
           ~SystemCollection.families[i].has_stretch

-----------------------------------------------------------------------------
(* Threads. Each context is used by one thread (its snapshot sits in a     *)
(* RefCell), and the threads share the library. A call is a sequence of    *)
(* steps, one for each stretch of code between two accesses to shared      *)
(* state: a lock taken, the version counter read, the disk read.           *)

CanRead(lock) == lock.writer = {}

\* The exclusive access that never waits
CanWriteAlways(lock) == TRUE

CanWrite(lock) == lock.writer = {} /\ lock.readers = {}

ReadLock(lock, c) == [lock EXCEPT !.readers = @ \cup {c}]
WriteLock(lock, c) == [lock EXCEPT !.writer = {c}]

\* The guard that is never given back
UnlockNever(lock, c) == lock

\* A guard goes out of scope
Unlock(lock, c) == [readers |-> lock.readers \ {c}, writer |-> lock.writer \ {c}]

\* A bound on the calls one thread makes to its context
MaxCalls == 2

\* The thread of context c begins the call op
Begin(c, op, arg, at) ==
    [threads EXCEPT ![c].at = at, ![c].op = op, ![c].arg = arg,
                    ![c].calls = @ + 1]

\* The thread of context c returns from its call
Return(c) ==
    [threads EXCEPT ![c].at = "idle", ![c].op = "none", ![c].arg = None,
                    ![c].arc_user = 0, ![c].data = None]

CanCall(c) == threads[c].at = "idle" /\ threads[c].calls < MaxCalls

-----------------------------------------------------------------------------
(* load_source, step by step: the threads load the source LoadedSource.    *)

LoadedSource == SystemId(0)

\* The path of a system source that is loaded from a file, or None
PathOf(sys, id) ==
    LET source == SystemSource(sys, id)
    IN  IF source = None THEN None
        ELSE IF Unwrap(source).kind = "Data" THEN None
        ELSE Some(Unwrap(source).loc)

\* The status cell of a system source that exists
StatusCell(sys, id) ==
    IF sys.kind = "Static" THEN sys.static.sources[ToUsize(id) + 1]
    ELSE sys.collection.sources[ToUsize(id) + 1].status

\* The system collection with a status stored in the cell
StoreStatus(sys, id, status) ==
    IF sys.kind = "Static"
    THEN StaticSystem([sys.static EXCEPT !.sources[ToUsize(id) + 1] = status])
    ELSE ScannedSystem([sys.collection EXCEPT
                           !.sources[ToUsize(id) + 1].status = status])

\* load_source, lines 416-424: the status looked at again under the
\* exclusive lock
Recheck(status) == CheckStatus(status)

\* The thread returns from load with `out`, having read the disk `reads`
\* times; the bytes it held before are dropped for the ones it returns
LoadReturn(c, out, reads) ==
    /\ threads' = [Return(c) EXCEPT ![c].out = out]
    /\ last' = Call("load", LoadedSource, out, reads)

\* FontContext::load, line 94: the system collection borrowed, and the
\* path-backed source found
LoadCall(c) ==
    /\ Created(c)
    /\ CanCall(c)
    /\ IsSome(PathOf(system, LoadedSource))
    /\ CanRead(locks.system)
    /\ threads' = Begin(c, "load", Some(LoadedSource), "check")
    /\ locks' = [locks EXCEPT !.system = ReadLock(@, c)]
    /\ UNCHANGED <<system, user, user_version, contexts, disk, last, arcs>>

\* load_source, lines 406-414: the status read under the shared lock
LoadCheck(c) ==
    /\ threads[c].at = "check"
    /\ CanRead(locks.status)
    /\ LET r == CheckStatus(StatusCell(system, LoadedSource))
       IN  IF r.done
           THEN /\ LoadReturn(c, r.out, 0)
                /\ locks' = [locks EXCEPT !.system = Unlock(@, c)]
           ELSE /\ threads' = [threads EXCEPT ![c].at = "blocked"]
                /\ UNCHANGED <<locks, last>>
    /\ UNCHANGED <<system, user, user_version, contexts, disk, arcs>>

\* load_source, lines 415-424: the exclusive lock taken and the status
\* read again
LoadLock(c) ==
    /\ threads[c].at = "blocked"
    /\ CanWrite(locks.status)
    /\ LET r == Recheck(StatusCell(system, LoadedSource))
       IN  IF r.done
           THEN /\ LoadReturn(c, r.out, 0)
                /\ locks' = [locks EXCEPT !.system = Unlock(@, c)]
           ELSE /\ threads' = [threads EXCEPT ![c].at = "locked"]
                /\ locks' = [locks EXCEPT !.status = WriteLock(@, c)]
                /\ UNCHANGED last
    /\ UNCHANGED <<system, user, user_version, contexts, disk, arcs>>

\* load_source, line 425: the file read
LoadRead(c) ==
    /\ threads[c].at = "locked"
    /\ threads' = [threads EXCEPT
                      ![c].at = "read",
                      ![c].data = Some(ReadFile(Unwrap(PathOf(system, LoadedSource)),
                                                disk))]
    /\ UNCHANGED <<system, user, user_version, contexts, disk, last, locks, arcs>>

\* load_source, lines 426-430: the status stored, and the locks given back
LoadStore(c) ==
    /\ threads[c].at = "read"
    /\ system' = StoreStatus(system, LoadedSource, Unwrap(threads[c].data).status)
    /\ LoadReturn(c, Unwrap(threads[c].data).out, Unwrap(threads[c].data).reads)
    /\ locks' = [locks EXCEPT !.status = Unlock(@, c), !.system = Unlock(@, c)]
    /\ UNCHANGED <<user, user_version, contexts, disk, arcs>>

\* The thread drops the bytes a load returned to it: the weak reference in
\* the status dies when no other thread holds them
DropBytes(c) ==
    /\ threads[c].at = "idle"
    /\ IsSome(threads[c].out)
    /\ threads' = [threads EXCEPT ![c].out = None]
    /\ system' = StoreStatus(system, LoadedSource,
                     [StatusCell(system, LoadedSource) EXCEPT
                         !.alive = \E d \in Ctx \ {c} : IsSome(threads[d].out)])
    /\ UNCHANGED <<user, user_version, contexts, disk, last, locks, arcs>>

\* Concurrent loads of one source, while the file changes
NextLoad ==
    \/ SetupDefault
    \/ \E c \in Ctx : NewContext(c)
    \/ \E c \in Ctx : LoadCall(c)
    \/ \E c \in Ctx : LoadCheck(c)
    \/ \E c \in Ctx : LoadLock(c)
    \/ \E c \in Ctx : LoadRead(c)
    \/ \E c \in Ctx : LoadStore(c)
    \/ \E c \in Ctx : DropBytes(c)
    \/ \E p \in Paths, b \in FileContents : WriteFile(p, b)

SpecLoad == Init /\ [][NextLoad]_vars


-----------------------------------------------------------------------------
(* Properties of concurrent loads, under SpecLoad.                         *)

\* The threads that are between taking the exclusive lock of the source's
\* status and giving it back: about to read the file, or about to store
Filling == {c \in Ctx : threads[c].at \in {"locked", "read"}}

\* The step changes what the status cell of the loaded source says
StatusStored ==
    /\ IsSome(PathOf(system, LoadedSource))
    /\ IsSome(PathOf(system', LoadedSource))
    /\ \/ StatusCell(system', LoadedSource).tag # StatusCell(system, LoadedSource).tag
       \/ StatusCell(system', LoadedSource).bytes # StatusCell(system, LoadedSource).bytes

\* C24: for concurrent loads of one path-backed source, the file is read
\* and the status stored only by the thread that holds the status's
\* exclusive lock, so at most one thread is reading the source at a time;
\* and a thread that takes the exclusive lock when another has stored
\* Present and the bytes are still held returns those bytes without
\* reading the file.
C24_SingleFlight ==
    /\ [](/\ \A c \in Filling : locks.status.writer = {c}
          /\ Cardinality(Filling) <= 1)
    /\ [][/\ StatusStored =>
                 \E c \in Ctx : /\ threads[c].at = "read"
                                /\ locks.status.writer = {c}
                                /\ threads'[c].at = "idle"
          /\ \A c \in Ctx :
                 (/\ threads[c].at = "blocked"
                  /\ threads'[c].at # "blocked"
                  /\ StatusCell(system, LoadedSource).tag = "Present"
                  /\ StatusCell(system, LoadedSource).alive) =>
                     /\ threads'[c].at = "idle"
                     /\ threads'[c].out = Some(StatusCell(system, LoadedSource).bytes)
                     /\ last'.reads = 0
                     /\ system' = system]_vars

\* Both threads found the source Vacant; one filled it and still holds the
\* bytes, and the other is about to take the exclusive lock.
C24_Witness ==
    /\ threads["c1"].at = "idle"
    /\ threads["c1"].out = Some("ba")
    /\ last = Call("load", LoadedSource, Some("ba"), 1)
    /\ threads["c2"].at = "blocked"
    /\ StatusCell(system, LoadedSource) = Present("ba")
    /\ locks.status = Unlocked
    /\ disk["p1"] = "ba'"

\* The tag of the loaded source's status, Vacant before the source exists
TagOf(sys) ==
    IF IsSome(PathOf(sys, LoadedSource)) THEN StatusCell(sys, LoadedSource).tag
    ELSE "Vacant"

\* The source is Present but nobody holds its bytes any more
Reclaimed ==
    /\ IsSome(PathOf(system, LoadedSource))
    /\ StatusCell(system, LoadedSource).tag = "Present"
    /\ ~StatusCell(system, LoadedSource).alive

\* C25: a source's status moves only from Vacant to Present or Error and
\* from Present to Present or Error, never back to Vacant and never out of
\* Error; and when the status is Present but the bytes were dropped, the
\* next load reads the file once and, when the read succeeds, stores a
\* fresh Present and returns the bytes read.
C25_StatusTransitions ==
    [][/\ <<TagOf(system), TagOf(system')>> \in
              {<<"Vacant", "Vacant">>, <<"Vacant", "Present">>, <<"Vacant", "Error">>,
               <<"Present", "Present">>, <<"Present", "Error">>,
               <<"Error", "Error">>}
       /\ \A c \in Ctx :
              /\ (Reclaimed /\ threads[c].at = "blocked"
                      /\ threads'[c].at # "blocked") =>
                     /\ threads'[c].at = "locked"
                     /\ system' = system
              /\ (threads[c].at = "locked" /\ threads'[c] # threads[c]) =>
                     /\ threads'[c].at = "read"
                     /\ Unwrap(threads'[c].data).reads = 1
                     /\ system' = system
              /\ (threads[c].at = "read" /\ threads'[c] # threads[c]
                      /\ IsSome(Unwrap(threads[c].data).out)) =>
                     /\ StatusCell(system', LoadedSource) =
                            Present(Unwrap(Unwrap(threads[c].data).out))
                     /\ threads'[c].out = Unwrap(threads[c].data).out
                     /\ last' = Call("load", LoadedSource, threads'[c].out, 1)]_vars

\* One thread loaded the source twice and the other never: its second load
\* read the file again, after the bytes of the first were dropped and the
\* file rewritten, and returned the new bytes.
C25_Witness ==
    /\ threads["c1"].calls = 2
    /\ threads["c1"].at = "idle"
    /\ threads["c2"].calls = 0
    /\ last = Call("load", LoadedSource, Some("ba'"), 1)
    /\ threads["c1"].out = Some("ba'")
    /\ StatusCell(system, LoadedSource) = Present("ba'")


-----------------------------------------------------------------------------
(* The snapshots, step by step. A context's `user` cell points at a        *)
(* reference-counted pair (version, data); a clone of the context and a    *)
(* Families iterator made from it point at the same pair.                  *)

\* What a holder sees through its reference
View(h) == arcs.cells[arcs.held[h]]

Holds(h) == arcs.held[h] # 0

\* A new reference-counted cell: the cells and the reference to the new one
ArcNew(cells, cell) == [cells |-> Append(cells, cell), ptr |-> Len(cells) + 1]

\* The mutable access that never copies
MakeMutInPlace(cells, held, ptr) == [cells |-> cells, ptr |-> ptr]

\* Arc::make_mut on the local arc_user (line 155): the cell itself when
\* arc_user is the only reference to it, a copy of it in a new cell when
\* a holder points at it as well
MakeMut(cells, held, ptr) ==
    IF {h \in Holders : held[h] = ptr} = {} THEN [cells |-> cells, ptr |-> ptr]
    ELSE ArcNew(cells, cells[ptr])

\* The test that finds every snapshot stale
IsStaleAlways(snapshot_version, version) == TRUE

\* sync_user, line 153
IsStale(snapshot_version, version) == snapshot_version # version

\* The stamp that starts the versions over
StampZero(cell, version) == [cell EXCEPT !.version = 0]

\* sync_user, line 158
Stamp(cell, version) == [cell EXCEPT !.version = version]

\* FontContext::new, line 22: the user collection borrowed
NewCall(c) ==
    /\ ~Holds(c)
    /\ threads[c].at = "idle"
    /\ CanRead(locks.user)
    /\ threads' = [threads EXCEPT ![c].at = "new", ![c].op = "new"]
    /\ locks' = [locks EXCEPT !.user = ReadLock(@, c)]
    /\ UNCHANGED <<system, user, user_version, contexts, disk, last, arcs>>

\* FontContext::new, lines 23-29: the version read, the collection cloned
NewReturn(c) ==
    /\ threads[c].at = "new"
    /\ LET r == ArcNew(arcs.cells, NewSnapshot)
       IN  arcs' = [cells |-> r.cells, held |-> [arcs.held EXCEPT ![c] = r.ptr]]
    /\ threads' = Return(c)
    /\ locks' = [locks EXCEPT !.user = Unlock(@, c)]
    /\ UNCHANGED <<system, user, user_version, contexts, disk, last>>

\* FontContext::clone (derived): the new context shares the snapshot
CloneContext(c, d) ==
    /\ Holds(c)
    /\ threads[c].at = "idle"
    /\ ~Holds(d)
    /\ threads[d].at = "idle"
    /\ arcs' = [arcs EXCEPT !.held[d] = arcs.held[c]]
    /\ UNCHANGED <<system, user, user_version, contexts, disk, last, threads, locks>>

\* FontContext::families: the iterator shares the snapshot
FamiliesOf(c) ==
    /\ Holds(c)
    /\ threads[c].at = "idle"
    /\ arcs.held["it"] # arcs.held[c]
    /\ arcs' = [arcs EXCEPT !.held["it"] = arcs.held[c]]
    /\ UNCHANGED <<system, user, user_version, contexts, disk, last, threads, locks>>

\* FontContext::family, font or source of a user id, entering sync_user,
\* lines 152-153: the version read and compared. The query then reads the
\* context's own snapshot.
SyncCall(c, op) ==
    /\ Holds(c)
    /\ CanCall(c)
    /\ LET called == Begin(c, op, None, "stale")
       IN  threads' = IF IsStale(View(c).version, user_version) THEN called
                      ELSE [called EXCEPT ![c] = Return(c)[c]]
    /\ UNCHANGED <<system, user, user_version, contexts, disk, last, locks, arcs>>

\* sync_user, lines 154-157: a private copy of the snapshot made, the user
\* collection borrowed and copied into it
SyncCopy(c) ==
    /\ threads[c].at = "stale"
    /\ CanRead(locks.user)
    /\ LET r == MakeMut(arcs.cells, arcs.held, arcs.held[c])
       IN  /\ arcs' = [arcs EXCEPT
                          !.cells = [r.cells EXCEPT
                                        ![r.ptr].data = CloneInto(user, @)]]
           /\ threads' = [threads EXCEPT ![c].at = "copied", ![c].arc_user = r.ptr,
                                         ![c].copied = Some(user_version)]
    /\ locks' = [locks EXCEPT !.user = ReadLock(@, c)]
    /\ UNCHANGED <<system, user, user_version, contexts, disk, last>>

\* sync_user, lines 158-160: the version read again and stamped, the copy
\* stored in the context, the borrow given back
SyncStore(c) ==
    /\ threads[c].at = "copied"
    /\ arcs' = [cells |-> [arcs.cells EXCEPT
                              ![threads[c].arc_user] = Stamp(@, user_version)],
                held |-> [arcs.held EXCEPT ![c] = threads[c].arc_user]]
    /\ threads' = Return(c)
    /\ locks' = [locks EXCEPT !.user = Unlock(@, c)]
    /\ UNCHANGED <<system, user, user_version, contexts, disk, last>>

\* register_fonts is called: the thread waits for the system collection
RegisterCall(c, bytes) ==
    /\ Holds(c)
    /\ CanCall(c)
    /\ threads' = Begin(c, "register_fonts", Some(bytes), "waiting")
    /\ UNCHANGED <<system, user, user_version, contexts, disk, last, locks, arcs>>

\* register_fonts, line 130: the system collection borrowed mutably
RegisterLock(c) ==
    /\ threads[c].at = "waiting"
    /\ CanWrite(locks.system)
    /\ threads' = [threads EXCEPT ![c].at = "registering"]
    /\ locks' = [locks EXCEPT !.system = WriteLock(@, c)]
    /\ UNCHANGED <<system, user, user_version, contexts, disk, last, arcs>>

\* register_fonts, lines 131-149: the fonts added, the version advanced,
\* the borrow given back
RegisterReturn(c) ==
    /\ threads[c].at = "registering"
    /\ \E r \in {RegisterIn(system, Unwrap(threads[c].arg), tie) : tie \in Ties} :
           /\ system' = r.sys
           /\ user_version' = NextVersion(user_version, r.count)
           /\ last' = Call("register_fonts", Unwrap(threads[c].arg),
                           IF r.count # 0 THEN r.reg ELSE None, 0)
    /\ threads' = Return(c)
    /\ locks' = [locks EXCEPT !.system = Unlock(@, c)]
    /\ UNCHANGED <<user, contexts, disk, arcs>>

SyncBlobs == {"fo", "noto"}
SyncOps == {"family", "font", "source"}

\* Contexts made, cloned and iterated, their queries and registrations
NextSync ==
    \/ \E c \in Ctx : NewCall(c)
    \/ \E c \in Ctx : NewReturn(c)
    \/ \E c \in Ctx, d \in Ctx : CloneContext(c, d)
    \/ \E c \in Ctx : FamiliesOf(c)
    \/ \E c \in Ctx, op \in SyncOps : SyncCall(c, op)
    \/ \E c \in Ctx : SyncCopy(c)
    \/ \E c \in Ctx : SyncStore(c)
    \/ \E c \in Ctx, b \in SyncBlobs : RegisterCall(c, b)
    \/ \E c \in Ctx : RegisterLock(c)
    \/ \E c \in Ctx : RegisterReturn(c)

SpecSync == Init /\ [][NextSync]_vars

\* The calls that take a lock: contexts made, resynced and registering
NextLocks ==
    \/ \E c \in Ctx : NewCall(c)
    \/ \E c \in Ctx : NewReturn(c)
    \/ \E c \in Ctx : SyncCall(c, "family")
    \/ \E c \in Ctx : SyncCopy(c)
    \/ \E c \in Ctx : SyncStore(c)
    \/ \E c \in Ctx : RegisterCall(c, "fo")
    \/ \E c \in Ctx : RegisterLock(c)
    \/ \E c \in Ctx : RegisterReturn(c)

SpecLocks == Init /\ [][NextLocks]_vars

\* The thread of c returns from register_fonts: a RegisterReturn(c) step,
\* told by what it does to the thread
RegisterReturns(c) == threads[c].at = "registering" /\ threads' = Return(c)

\* Every call is bounded: a thread that is in a call and can take its next
\* step takes it
FairLocks ==
    /\ SpecLocks
    /\ \A c \in Ctx : /\ WF_vars(NewReturn(c))
                      /\ WF_vars(SyncCopy(c))
                      /\ WF_vars(SyncStore(c))
                      /\ WF_vars(RegisterLock(c))
                      /\ WF_threads(RegisterReturns(c))


-----------------------------------------------------------------------------
(* Properties of the snapshots, under SpecSync.                            *)

\* The thread of c makes the step that leaves `from`
Leaves(c, from) == threads[c].at = from /\ threads'[c] # threads[c]

\* The thread of c enters a query (it was idle, and the call is counted)
Queries(c) ==
    /\ threads[c].at = "idle"
    /\ threads'[c].calls = threads[c].calls + 1
    /\ threads'[c].op \in SyncOps \/ threads'[c].at = "idle"

\* C26: a context copies the user collection only when the version it
\* captured differs from the counter. A query on a context whose version
\* equals the counter copies nothing and leaves the snapshot as it is, and
\* between two changes of the counter a context copies at most once.
C26_CopyOnlyWhenStale ==
    [][\A c \in Ctx :
           /\ (Holds(c) /\ Queries(c) /\ View(c).version = user_version) =>
                  /\ arcs' = arcs
                  /\ threads'[c].at = "idle"
           /\ (Leaves(c, "stale") \/ Leaves(c, "copied")) =>
                  View(c).version # user_version
           /\ Leaves(c, "stale") => threads[c].copied # Some(user_version)
           /\ threads'[c].copied # threads[c].copied => Leaves(c, "stale")
           /\ Len(arcs'.cells) > Len(arcs.cells) =>
                  \E d \in Ctx : Leaves(d, "stale") \/ Leaves(d, "new")]_vars

\* A context has served two queries since the version changed and copied
\* once: the second query found the snapshot current.
C26_Witness ==
    /\ threads["c1"].at = "idle"
    /\ threads["c1"].calls = 2
    /\ threads["c1"].copied = Some(1)
    /\ threads["c2"].calls = 1
    /\ threads["c2"].copied = None
    /\ user_version = 1
    /\ View("c1").version = 1
    /\ Len(arcs.cells) = 2


\* The threads that hold the user collection's lock
UserReaders == locks.user.readers \cup locks.user.writer

\* C27: a context holds the user collection's lock, shared, only inside
\* FontContext::new and during the copy of a resync; when no context runs
\* a call nobody holds it; and a register_fonts call that waits for
\* exclusive access gets it and returns, whatever snapshots the contexts
\* keep.
C27_LockOnlyWhileCopying ==
    /\ [](/\ locks.user.writer = {}
          /\ \A c \in Ctx : c \in locks.user.readers <=>
                               threads[c].at \in {"new", "copied"}
          /\ (\A c \in Ctx : threads[c].at = "idle") =>
                 /\ locks.user = Unlocked
                 /\ locks.system = Unlocked)
    /\ \A c \in Ctx : (threads[c].at = "waiting") ~> (threads[c].op = "none")

\* A registration waits for its lock while the other context, idle
\* between calls, keeps a snapshot that is out of date; no lock on the
\* user collection is held.
C27_Witness ==
    /\ threads["c1"].at = "waiting"
    /\ threads["c2"].at = "idle"
    /\ Holds("c2")
    /\ View("c2").version # user_version
    /\ locks.user = Unlocked


\* What holder h sees in the step's second state
ViewAfter(h) == arcs'.cells[arcs'.held[h]]

\* C28: the version in a context's snapshot never decreases while the
\* context lives and never exceeds the library's version counter, however
\* the registrations and the resyncs of the threads interleave.
C28_VersionMonotone ==
    /\ [](\A c \in Ctx : Holds(c) => View(c).version <= user_version)
    /\ [][\A c \in Ctx : Holds(c) =>
              /\ arcs'.held[c] # 0
              /\ ViewAfter(c).version >= View(c).version]_vars

\* A resync found the counter at 1 when it copied and at 2 when it stamped
\* the copy: a registration came in between.
C28_Witness ==
    /\ threads["c1"].at = "idle"
    /\ threads["c1"].copied = Some(1)
    /\ View("c1").version = 2
    /\ user_version = 2

\* C29: when two holders share a snapshot (a context and its clone, or a
\* context and an iterator made from it), a resync by one of them changes
\* that holder's snapshot only: what the other sees through its reference,
\* version and contents, is what it saw before.
C29_CopyOnWriteIsolation ==
    [][\A c \in Ctx : (Leaves(c, "stale") \/ Leaves(c, "copied")) =>
           \A h \in Holders \ {c} : Holds(h) =>
               /\ arcs'.held[h] = arcs.held[h]
               /\ ViewAfter(h) = View(h)]_vars

\* A context, its clone and an iterator shared one snapshot; the context
\* resynced, and the clone and the iterator still see version 0.
C29_Witness ==
    /\ Len(arcs.cells) = 2
    /\ arcs.held["c1"] = 2
    /\ arcs.held["c2"] = 1
    /\ arcs.held["it"] = 1
    /\ threads["c1"].copied = Some(1)
    /\ View("c1").version = 1
    /\ View("c2").version = 0
    /\ View("it").version = 0


-----------------------------------------------------------------------------
(* Referential integrity of the font table, under SpecIngest.              *)

\* The positions at which family f of collection c lists the font id
ListedAt(c, f, id) == {j \in 1..Len(c.families[f].fonts) : c.families[f].fonts[j][1] = id}

\* C30: after any sequence of ingestion calls, every font record names a
\* family and a source that exist, the font id of the record at position i
\* is listed exactly once by the family the record names and by no other
\* family, and every family has at least one font.
C30_ReferentialIntegrity ==
    /\ \A i \in 1..Len(SystemCollection.fonts) :
           /\ ToUsize(SystemCollection.fonts[i].family) < Len(SystemCollection.families)
           /\ ToUsize(SystemCollection.fonts[i].source) < Len(SystemCollection.sources)
           /\ \A f \in 1..Len(SystemCollection.families) :
                  Cardinality(ListedAt(SystemCollection, f, IdOf(i - 1, FALSE))) =
                      IF f = ToUsize(SystemCollection.fonts[i].family) + 1 THEN 1 ELSE 0
    /\ \A f \in 1..Len(SystemCollection.families) :
           Len(SystemCollection.families[f].fonts) >= 1

\* Three fonts from two sources or more, in two families one of which
\* lists two of them.
C30_Witness ==
    /\ Registered
    /\ Len(SystemCollection.fonts) = 3
    /\ Len(SystemCollection.families) = 2
    /\ Len(SystemCollection.sources) >= 2
    /\ \E f \in 1..2 : Len(SystemCollection.families[f].fonts) = 2
    /\ SystemCollection.fonts[3].family # SystemCollection.fonts[1].family


-----------------------------------------------------------------------------
(* Consistency of the name map, under SpecIngest.                          *)

\* The names under which the map of collection c holds no family
NamesWithoutFamily(c) == {n \in DOMAIN c.family_map : c.family_map[n] = None}

\* C31: after any sequence of ingestion calls and name lookups, every
\* entry of the name map that holds a family id maps the lowercase form of
\* that family's name to it, every family is found in the map under its
\* lowercase name, and no two families have names that are equal up to
\* letter case.
C31_NameMapConsistent ==
    /\ \A n \in DOMAIN SystemCollection.family_map :
           IsSome(SystemCollection.family_map[n]) =>
               /\ ToUsize(Unwrap(SystemCollection.family_map[n])) <
                      Len(SystemCollection.families)
               /\ n = ToLower(SystemCollection.families[
                          ToUsize(Unwrap(SystemCollection.family_map[n])) + 1].name)
    /\ \A f \in 1..Len(SystemCollection.families) :
           /\ ToLower(SystemCollection.families[f].name) \in
                  DOMAIN SystemCollection.family_map
           /\ SystemCollection.family_map[ToLower(SystemCollection.families[f].name)] =
                  Some(IdOf(f - 1, FALSE))
    /\ \A f, g \in 1..Len(SystemCollection.families) :
           f # g => ToLower(SystemCollection.families[f].name) #
                        ToLower(SystemCollection.families[g].name)

\* Two families, one holding two faces under a name that is not its own
\* lowercase form, next to a name that was looked up and maps to no family.
C31_Witness ==
    /\ Len(SystemCollection.families) >= 2
    /\ NamesWithoutFamily(SystemCollection) # {}
    /\ \E f \in 1..Len(SystemCollection.families) :
           /\ SystemCollection.families[f].name #
                  ToLower(SystemCollection.families[f].name)
           /\ Len(SystemCollection.families[f].fonts) >= 2
    /\ last.op = "family_by_name"

=============================================================================
